---- MODULE Spec2Model ----
(***************************************************************************)
(* Model of the bot adapter's ingestion pipeline (src/bot_adapter):        *)
(* the read loop of BotAdapter::start, process_event, the raw-store task,  *)
(* the dispatch task running event::process_message and the Brain Agent    *)
(* task, with the two tokio mutexes they share: the one around BotAdapter  *)
(* (SharedBotAdapter) and the one around MessageStore.                     *)
(* RecordSpec follows one event field by field through process_event and  *)
(* process_message; StoreSpec runs MessageStore on its own and TierSpec     *)
(* runs it with its MySQL tier; NewSpec takes BotAdapter::new step by      *)
(* step; UrlSpec builds the Host header of the upgrade request.            *)
(***************************************************************************)
EXTENDS Integers, Sequences, FiniteSets, TLC

\* ---------------------------------------------------------------- bounds
MaxFrames == 2
MaxHandlers == 2
MaxSegments == 2

\* A handler is a closure; it is named by its registration: the i-th call of
\* register_event_handler registers handler i.
HandlerIds == 1..MaxHandlers

Events == 1..MaxFrames

\* ---------------------------------------------------------------- state
VARIABLES
    event_handlers,   \* BotAdapter.event_handlers (Vec<EventHandler>)
    brain_agent,      \* BotAdapter.brain_agent.is_some()
    bot_profile,      \* BotAdapter.bot_profile.qq_id
    adapterLock,      \* holder of the SharedBotAdapter mutex
    storeLock,        \* holder of the Arc<TokioMutex<MessageStore>> mutex
    loopPc,           \* position of main / BotAdapter::start
    startResult,      \* value returned by BotAdapter::start
    nread,            \* frames taken from the stream so far
    ev,               \* ev[e]: what the e-th item of the stream was: the
                      \* message_type of its event, or why it gave none
    rs,               \* rs[e]: position of the raw-store task of event e
    pm,               \* pm[e]: position of the dispatch task of event e
    hs,               \* hs[e]: `handlers`, the list cloned by process_message
    hi,               \* hs[e][hi[e]] is the handler the for loop is at
    hlog,             \* hlog[e]: calls and returns of handlers for event e, in order
    bt,               \* bt[e]: position of the Brain Agent task of event e
    bres,             \* bres[e]: result of brain.on_event for event e
    mem,              \* mem[k]: the values store_message was called with
                      \* for key k, in order; the last one is the value kept
    records,          \* records[k]: results of the store_message_record
                      \* calls made with a record whose message_id is k
    appendRes,        \* appendRes[e]: result of store_message_record
    errlog,           \* error! lines written by the dispatch pipeline
    unit              \* state of a component run on its own, outside the
                      \* pipeline; <<>> while the pipeline runs

adapterVars == <<event_handlers, brain_agent, bot_profile>>
lockVars == <<adapterLock, storeLock>>
loopVars == <<loopPc, startResult, nread>>
taskVars == <<ev, rs, pm, hs, hi, hlog, bt, bres>>
storeVars == <<mem, records, appendRes>>
pipelineVars == <<adapterVars, lockVars, loopVars, taskVars, storeVars, errlog>>
vars == <<pipelineVars, unit>>

\* ---------------------------------------------------------------- locks
Free == <<"free", 0>>
LoopTask == <<"loop", 0>>
RawTask(e) == <<"raw", e>>
DispatchTask(e) == <<"dispatch", e>>
BrainTask(e) == <<"brain", e>>

\* ---------------------------------------------------------------- frames
\* A frame is <<variant of WsMessage, what its bytes hold>>.
NoText == "-"
Payloads == {"invalid_json", "no_message_type", "bad_schema", "private", "group"}
Frames ==
    ({"Text"} \X Payloads)
    \cup ({"Binary"} \X (Payloads \cup {"invalid_utf8"}))
    \cup ({"Close", "Ping", "Pong", "Frame", "Err"} \X {NoText})

\* String::from_utf8(data).is_ok()
from_utf8_ok(f) == f[2] # "invalid_utf8"

\* serde_json::from_str(&message).is_ok()
from_str_ok(text) == text # "invalid_json"

\* message_json.get("message_type").is_none()
message_type_is_none(text) == text = "no_message_type"

\* serde_json::from_value::<RawMessageEvent>(message_json).is_ok()
from_value_ok(text) == text \in {"private", "group"}

\* matches!(raw_event.message_type, MessageType::Group)
is_group_message(e) == ev[e] = "group"

\* RawMessageEvent.message_id of the event of the e-th frame.  The gateway is
\* taken to give every message an id of its own.
message_id(e) == e

\* The characters of the decimal digits, Digits[d + 1] for digit d.
Digits == <<"0", "1", "2", "3", "4", "5", "6", "7", "8", "9">>

\* The digits of a natural number, most significant first.  A string is the
\* sequence of its characters.
RECURSIVE to_decimal(_)
to_decimal(n) ==
    IF n < 10 THEN <<Digits[n + 1]>>
    ELSE Append(to_decimal(n \div 10), Digits[(n % 10) + 1])

\* i64::to_string: the decimal digits, after a minus sign below zero.
to_string(n) == IF n < 0 THEN <<"-">> \o to_decimal(0 - n) ELSE to_decimal(n)

\* The key cut down to the parity of the message_id.
msg_id_parity(e) == <<Digits[(message_id(e) % 2) + 1]>>

\* adapter.rs:294: let msg_id = raw_event.message_id.to_string()
msg_id(e) == to_string(message_id(e))

\* adapter.rs:295: serde_json::to_string(&raw_event).unwrap_or_default(), the
\* JSON object of the fields of the decoded RawMessageEvent, whatever else the
\* frame's text held.
msg_str(e) == <<"message_id", message_id(e), "message_type", ev[e]>>

\* The keys the events of the stream can be stored under.
Keys == {msg_id(e) : e \in Events}

\* get_event_handlers handing the list out back to front.
get_event_handlers_reversed ==
    [i \in 1..Len(event_handlers) |->
        event_handlers[Len(event_handlers) + 1 - i]]

\* BotAdapter::get_event_handlers: a clone of the registered list.
get_event_handlers == event_handlers

\* BotAdapter::get_brain_agent().cloned(): Some(_) or None.
get_brain_agent == brain_agent

\* ---------------------------------------------------------------- Init
\* adapter.rs:106-149: BotAdapter::new(config) returns the adapter whatever
\* config.qq_id holds; it has no failing path.
new(qq_id) ==
    /\ event_handlers = <<>>
    /\ brain_agent \in BOOLEAN
    /\ bot_profile = qq_id
    /\ adapterLock = Free
    /\ storeLock = Free
    /\ loopPc = "new"
    /\ startResult = "none"
    /\ nread = 0
    /\ ev = [e \in Events |-> "none"]
    /\ rs = [e \in Events |-> "none"]
    /\ pm = [e \in Events |-> "none"]
    /\ hs = [e \in Events |-> <<>>]
    /\ hi = [e \in Events |-> 0]
    /\ hlog = [e \in Events |-> <<>>]
    /\ bt = [e \in Events |-> "none"]
    /\ bres = [e \in Events |-> "none"]
    /\ mem = [k \in Keys |-> <<>>]
    /\ records = [k \in Keys |-> <<>>]
    /\ appendRes = [e \in Events |-> "none"]
    /\ errlog = {}

\* The adapter of a bot whose identity is configured.
Init == new("10001") /\ unit = <<>>

\* The identities a caller can hand to BotAdapterConfig::new: main.rs:31-32
\* takes any string from the command line, node_impl.rs:61-67 falls back to
\* the QQ_ID variable and then to the empty string.
QqIds == {"", "10001"}

InitAnyQqId == (\E qq_id \in QqIds : new(qq_id)) /\ unit = <<>>

\* ------------------------------------------------- BotAdapter, before start
\* register_event_handler putting the new handler in front of the others.
RegisterEventHandler_prepend(h) ==
    /\ loopPc = "new"
    /\ h = Len(event_handlers) + 1
    /\ event_handlers' = <<h>> \o event_handlers
    /\ UNCHANGED <<unit, brain_agent, bot_profile, lockVars, loopVars, taskVars,
                   storeVars, errlog>>

\* register_event_handler(&mut self, handler): only the owner of the adapter
\* can call it, i.e. before into_shared() hands the adapter to start.  A
\* Brain Agent is taken not to register handlers through the &mut BotAdapter
\* it is given.
RegisterEventHandler(h) ==
    /\ loopPc = "new"
    /\ h = Len(event_handlers) + 1
    /\ event_handlers' = Append(event_handlers, h)
    /\ UNCHANGED <<unit, brain_agent, bot_profile, lockVars, loopVars, taskVars,
                   storeVars, errlog>>

\* ------------------------------------------------- BotAdapter::start
\* adapter.rs:188-189: start begins by locking the adapter.
StartLock ==
    /\ loopPc = "new"
    /\ adapterLock = Free
    /\ adapterLock' = LoopTask
    /\ loopPc' = "start_copy"
    /\ UNCHANGED <<unit, adapterVars, storeLock, startResult, nread, taskVars,
                   storeVars, errlog>>

\* adapter.rs:190-191: url and token are cloned and the guard is dropped.
StartUnlock ==
    /\ loopPc = "start_copy"
    /\ adapterLock = LoopTask
    /\ adapterLock' = Free
    /\ loopPc' = "connecting"
    /\ UNCHANGED <<unit, adapterVars, storeLock, startResult, nread, taskVars,
                   storeVars, errlog>>

\* adapter.rs:209: connect_async(request).await? either yields the stream or
\* makes start return the error.
Connect(ok) ==
    /\ loopPc = "connecting"
    /\ IF ok
       THEN /\ loopPc' = "connected"
            /\ UNCHANGED startResult
       ELSE /\ loopPc' = "returned"
            /\ startResult' = "Err"
    /\ UNCHANGED <<unit, adapterVars, lockVars, nread, taskVars, storeVars, errlog>>

\* process_event building an event from any text that is JSON.
decodes_any_json(text) == from_str_ok(text)

\* adapter.rs:254-286: process_event up to its first await.  The text is
\* parsed as JSON, a value without message_type is ignored, the rest is parsed
\* as RawMessageEvent; TRUE when a MessageEvent is built.
decodes(text) ==
    /\ from_str_ok(text)
    /\ ~message_type_is_none(text)
    /\ from_value_ok(text)

\* adapter.rs:221-275: the arm of the read loop or the early return of
\* process_event that ends the work on a frame no MessageEvent is built from.
dropped_at(f) ==
    CASE f[1] = "Binary" /\ ~from_utf8_ok(f) -> "invalid_utf8"
      [] f[1] \in {"Text", "Binary"} /\ ~from_str_ok(f[2]) -> "invalid_json"
      [] f[1] \in {"Text", "Binary"} /\ message_type_is_none(f[2]) -> "no_message_type"
      [] f[1] \in {"Text", "Binary"} -> "bad_schema"
      [] OTHER -> f[1]

\* The loop reading the next frame while process_event still waits for the
\* adapter lock.
ReadFrame_pipelined(f) ==
    /\ loopPc \in {"connected", "lock_store_handle"}
    /\ nread < MaxFrames
    /\ nread' = nread + 1
    /\ CASE f[1] = "Text" \/ (f[1] = "Binary" /\ from_utf8_ok(f)) ->
              IF decodes(f[2])
              THEN /\ ev' = [ev EXCEPT ![nread + 1] = f[2]]
                   /\ loopPc' = "lock_store_handle"
                   /\ UNCHANGED startResult
              ELSE /\ ev' = [ev EXCEPT ![nread + 1] = dropped_at(f)]
                   /\ UNCHANGED <<loopPc, startResult>>
         [] f[1] \in {"Close", "Err"} ->
              /\ ev' = [ev EXCEPT ![nread + 1] = dropped_at(f)]
              /\ loopPc' = "returned"
              /\ startResult' = "Ok"
         [] OTHER ->
              /\ ev' = [ev EXCEPT ![nread + 1] = dropped_at(f)]
              /\ UNCHANGED <<loopPc, startResult>>
    /\ UNCHANGED <<unit, adapterVars, lockVars, rs, pm, hs, hi, hlog, bt, bres,
                   storeVars, errlog>>

\* A Ping or Pong handed to process_event as if it were a text frame.
ReadFrame_ping_as_text(f) ==
    /\ loopPc = "connected"
    /\ nread < MaxFrames
    /\ nread' = nread + 1
    /\ CASE f[1] = "Text" \/ (f[1] = "Binary" /\ from_utf8_ok(f)) ->
              IF decodes(f[2])
              THEN /\ ev' = [ev EXCEPT ![nread + 1] = f[2]]
                   /\ loopPc' = "lock_store_handle"
                   /\ UNCHANGED startResult
              ELSE /\ ev' = [ev EXCEPT ![nread + 1] = dropped_at(f)]
                   /\ UNCHANGED <<loopPc, startResult>>
         [] f[1] \in {"Close", "Err"} ->
              /\ ev' = [ev EXCEPT ![nread + 1] = dropped_at(f)]
              /\ loopPc' = "returned"
              /\ startResult' = "Ok"
         [] f[1] \in {"Ping", "Pong"} ->
              /\ ev' = [ev EXCEPT ![nread + 1] = dropped_at(f)]
              /\ loopPc' = "lock_store_handle"
              /\ UNCHANGED startResult
         [] OTHER ->
              /\ ev' = [ev EXCEPT ![nread + 1] = dropped_at(f)]
              /\ UNCHANGED <<loopPc, startResult>>
    /\ UNCHANGED <<unit, adapterVars, lockVars, rs, pm, hs, hi, hlog, bt, bres,
                   storeVars, errlog>>

\* A frame that cannot be decoded ending the loop with an error.
ReadFrame_fatal_decode(f) ==
    /\ loopPc = "connected"
    /\ nread < MaxFrames
    /\ nread' = nread + 1
    /\ CASE f[1] = "Text" \/ (f[1] = "Binary" /\ from_utf8_ok(f)) ->
              IF decodes(f[2])
              THEN /\ ev' = [ev EXCEPT ![nread + 1] = f[2]]
                   /\ loopPc' = "lock_store_handle"
                   /\ UNCHANGED startResult
              ELSE /\ ev' = [ev EXCEPT ![nread + 1] = dropped_at(f)]
                   /\ loopPc' = IF message_type_is_none(f[2])
                                THEN loopPc ELSE "returned"
                   /\ startResult' = IF message_type_is_none(f[2])
                                     THEN startResult ELSE "Err"
         [] f[1] \in {"Close", "Err"} ->
              /\ ev' = [ev EXCEPT ![nread + 1] = dropped_at(f)]
              /\ loopPc' = "returned"
              /\ startResult' = "Ok"
         [] f[1] = "Binary" ->
              /\ ev' = [ev EXCEPT ![nread + 1] = dropped_at(f)]
              /\ loopPc' = "returned"
              /\ startResult' = "Err"
         [] OTHER ->
              /\ ev' = [ev EXCEPT ![nread + 1] = dropped_at(f)]
              /\ UNCHANGED <<loopPc, startResult>>
    /\ UNCHANGED <<unit, adapterVars, lockVars, rs, pm, hs, hi, hlog, bt, bres,
                   storeVars, errlog>>

\* A read error sending start back to the handshake.
ReadFrame_reconnect(f) ==
    /\ loopPc = "connected"
    /\ nread < MaxFrames
    /\ nread' = nread + 1
    /\ CASE f[1] = "Text" \/ (f[1] = "Binary" /\ from_utf8_ok(f)) ->
              IF decodes(f[2])
              THEN /\ ev' = [ev EXCEPT ![nread + 1] = f[2]]
                   /\ loopPc' = "lock_store_handle"
                   /\ UNCHANGED startResult
              ELSE /\ ev' = [ev EXCEPT ![nread + 1] = dropped_at(f)]
                   /\ UNCHANGED <<loopPc, startResult>>
         [] f[1] = "Close" ->
              /\ ev' = [ev EXCEPT ![nread + 1] = dropped_at(f)]
              /\ loopPc' = "returned"
              /\ startResult' = "Ok"
         [] f[1] = "Err" ->
              /\ ev' = [ev EXCEPT ![nread + 1] = dropped_at(f)]
              /\ loopPc' = "connecting"
              /\ UNCHANGED startResult
         [] OTHER ->
              /\ ev' = [ev EXCEPT ![nread + 1] = dropped_at(f)]
              /\ UNCHANGED <<loopPc, startResult>>
    /\ UNCHANGED <<unit, adapterVars, lockVars, rs, pm, hs, hi, hlog, bt, bres,
                   storeVars, errlog>>

\* adapter.rs:215-244 and 250-286: one iteration of `while let Some(msg_result)`
\* up to its first suspension point: the match on the frame and, for a text or
\* a valid UTF-8 binary frame, process_event down to its lock().await.  Every
\* early return of process_event is back in the loop at read.next().
ReadFrame(f) ==
    /\ loopPc = "connected"
    /\ nread < MaxFrames
    /\ nread' = nread + 1
    /\ CASE f[1] = "Text" \/ (f[1] = "Binary" /\ from_utf8_ok(f)) ->
              IF decodes(f[2])
              THEN /\ ev' = [ev EXCEPT ![nread + 1] = f[2]]
                   /\ loopPc' = "lock_store_handle"
                   /\ UNCHANGED startResult
              ELSE /\ ev' = [ev EXCEPT ![nread + 1] = dropped_at(f)]
                   /\ UNCHANGED <<loopPc, startResult>>
         [] f[1] \in {"Close", "Err"} ->
              /\ ev' = [ev EXCEPT ![nread + 1] = dropped_at(f)]
              /\ loopPc' = "returned"
              /\ startResult' = "Ok"
         [] OTHER ->
              /\ ev' = [ev EXCEPT ![nread + 1] = dropped_at(f)]
              /\ UNCHANGED <<loopPc, startResult>>
    /\ UNCHANGED <<unit, adapterVars, lockVars, rs, pm, hs, hi, hlog, bt, bres,
                   storeVars, errlog>>

\* adapter.rs:215, 246: read.next() yields None, the stream is over, the loop
\* ends and start returns Ok(()).
StreamEnd ==
    /\ loopPc = "connected"
    /\ nread < MaxFrames
    /\ nread' = nread + 1
    /\ ev' = [ev EXCEPT ![nread + 1] = "None"]
    /\ loopPc' = "returned"
    /\ startResult' = "Ok"
    /\ UNCHANGED <<unit, adapterVars, lockVars, rs, pm, hs, hi, hlog, bt, bres,
                   storeVars, errlog>>

\* ------------------------------------------------- BotAdapter::process_event
\* event.rs:13-70: the first await of process_message.  A group event needs
\* nothing from the adapter for its at_target_list and goes on to the store
\* lock of line 84; a private event first locks the adapter for the bot id.
process_message_start(e) ==
    IF is_group_message(e) THEN "lock_store" ELSE "lock_bot_id"

\* process_event doing the raw put itself instead of spawning it: it needs
\* the store lock before it goes on.
ProcessEventLock_inline_put ==
    /\ loopPc = "lock_store_handle"
    /\ adapterLock = Free
    /\ storeLock = Free
    /\ adapterLock' = LoopTask
    /\ loopPc' = "store_handle"
    /\ UNCHANGED <<unit, adapterVars, storeLock, startResult, nread, taskVars,
                   storeVars, errlog>>

\* adapter.rs:290: adapter.lock().await
ProcessEventLock ==
    /\ loopPc = "lock_store_handle"
    /\ adapterLock = Free
    /\ adapterLock' = LoopTask
    /\ loopPc' = "store_handle"
    /\ UNCHANGED <<unit, adapterVars, storeLock, startResult, nread, taskVars,
                   storeVars, errlog>>

\* adapter.rs:291-306: the store handle is cloned, the guard dropped, the
\* raw-store task and the dispatch task are spawned, and process_event
\* returns to the read loop without awaiting either of them.  Each task
\* starts at its first await: the raw-store task at the store lock, the
\* dispatch task at process_message_start.
ProcessEventSpawn ==
    /\ loopPc = "store_handle"
    /\ adapterLock = LoopTask
    /\ adapterLock' = Free
    /\ rs' = [rs EXCEPT ![nread] = "lock_store"]
    /\ pm' = [pm EXCEPT ![nread] = process_message_start(nread)]
    /\ loopPc' = "connected"
    /\ UNCHANGED <<unit, adapterVars, storeLock, startResult, nread, ev, hs, hi,
                   hlog, bt, bres, storeVars, errlog>>

\* ------------------------------------------------- MessageStore
\* util::message_store::MessageStore, after spec.md section 4.1 (Tiered Store).
\* MessageStore::store_message(key, value): the memory tier takes the write
\* whatever the other tiers do.
store_message(key, value) == mem' = [mem EXCEPT ![key] = Append(@, value)]

\* MessageStore::store_message_record(&record): one row for the record when
\* the call succeeds, none when the durable log fails.
store_message_record(record_message_id, ok) ==
    records' = [records EXCEPT ![record_message_id] =
                    Append(@, IF ok THEN "Ok" ELSE "Err")]

\* ------------------------------------------------- the raw-store task
\* adapter.rs:297-298: store_for_spawn.lock().await, then store_message is
\* called with the guard alive.
RawStoreLock(e) ==
    /\ rs[e] = "lock_store"
    /\ storeLock = Free
    /\ storeLock' = RawTask(e)
    /\ rs' = [rs EXCEPT ![e] = "store_message"]
    /\ UNCHANGED <<unit, adapterVars, adapterLock, loopVars, ev, pm, hs, hi, hlog,
                   bt, bres, storeVars, errlog>>

\* adapter.rs:298-299: store_message returns, the task ends and drops the
\* guard.
RawStoreReturn(e) ==
    /\ rs[e] = "store_message"
    /\ storeLock = RawTask(e)
    /\ store_message(msg_id(e), msg_str(e))
    /\ storeLock' = Free
    /\ rs' = [rs EXCEPT ![e] = "done"]
    /\ UNCHANGED <<unit, adapterVars, adapterLock, loopVars, ev, pm, hs, hi, hlog,
                   bt, bres, records, appendRes, errlog>>

\* ------------------------------------------------- event::process_message
\* event.rs:66: bot_adapter.lock().await
BotIdLock(e) ==
    /\ pm[e] = "lock_bot_id"
    /\ adapterLock = Free
    /\ adapterLock' = DispatchTask(e)
    /\ pm' = [pm EXCEPT ![e] = "bot_id"]
    /\ UNCHANGED <<unit, adapterVars, storeLock, loopVars, ev, rs, hs, hi, hlog,
                   bt, bres, storeVars, errlog>>

\* process_message keeping the adapter guard it took for the bot id.
BotIdUnlock_keep_guard(e) ==
    /\ pm[e] = "bot_id"
    /\ adapterLock = DispatchTask(e)
    /\ pm' = [pm EXCEPT ![e] = "lock_store"]
    /\ UNCHANGED <<unit, adapterVars, lockVars, loopVars, ev, rs, hs, hi, hlog,
                   bt, bres, storeVars, errlog>>

\* event.rs:67-82: get_bot_id() is copied, the guard dropped, the record built.
BotIdUnlock(e) ==
    /\ pm[e] = "bot_id"
    /\ adapterLock = DispatchTask(e)
    /\ adapterLock' = Free
    /\ pm' = [pm EXCEPT ![e] = "lock_store"]
    /\ UNCHANGED <<unit, adapterVars, storeLock, loopVars, ev, rs, hs, hi, hlog,
                   bt, bres, storeVars, errlog>>

\* process_message handing store_message_record to a task of its own and
\* going straight on to the handlers.
StoreRecordLock_spawned(e) ==
    /\ pm[e] = "lock_store"
    /\ pm' = [pm EXCEPT ![e] = "lock_handlers"]
    /\ UNCHANGED <<unit, adapterVars, lockVars, loopVars, ev, rs, hs, hi, hlog, bt,
                   bres, storeVars, errlog>>

\* event.rs:84-85: `let store_guard = store.lock().await;` and the call of
\* store_message_record under it.  store_guard is a local of the function
\* body, so it lives until process_message returns.
StoreRecordLock(e) ==
    /\ pm[e] = "lock_store"
    /\ storeLock = Free
    /\ storeLock' = DispatchTask(e)
    /\ pm' = [pm EXCEPT ![e] = "store_message_record"]
    /\ UNCHANGED <<unit, adapterVars, adapterLock, loopVars, ev, rs, hs, hi, hlog,
                   bt, bres, storeVars, errlog>>

\* process_message dropping the store guard as soon as store_message_record
\* has returned.
StoreRecordReturn_drop_guard(e, ok) ==
    /\ pm[e] = "store_message_record"
    /\ storeLock' = Free
    /\ store_message_record(to_string(message_id(e)), ok)
    /\ appendRes' = [appendRes EXCEPT ![e] = IF ok THEN "Ok" ELSE "Err"]
    /\ errlog' = IF ok THEN errlog ELSE errlog \cup {<<"Event", e>>}
    /\ pm' = [pm EXCEPT ![e] = "lock_handlers"]
    /\ UNCHANGED <<unit, adapterVars, adapterLock, loopVars, ev, rs, hs, hi, hlog,
                   bt, bres, mem>>

\* process_message returning at a failed store_message_record.
StoreRecordReturn_abort(e, ok) ==
    /\ pm[e] = "store_message_record"
    /\ store_message_record(to_string(message_id(e)), ok)
    /\ appendRes' = [appendRes EXCEPT ![e] = IF ok THEN "Ok" ELSE "Err"]
    /\ errlog' = IF ok THEN errlog ELSE errlog \cup {<<"Event", e>>}
    /\ pm' = [pm EXCEPT ![e] = IF ok THEN "lock_handlers" ELSE "done"]
    /\ UNCHANGED <<unit, adapterVars, lockVars, loopVars, ev, rs, hs, hi, hlog, bt,
                   bres, mem>>

\* A failed store_message_record being called again.
StoreRecordReturn_retry(e, ok) ==
    /\ pm[e] = "store_message_record"
    /\ store_message_record(to_string(message_id(e)), ok)
    /\ appendRes' = [appendRes EXCEPT ![e] = IF ok THEN "Ok" ELSE "Err"]
    /\ errlog' = IF ok THEN errlog ELSE errlog \cup {<<"Event", e>>}
    /\ pm' = [pm EXCEPT ![e] = IF ok THEN "lock_handlers" ELSE @]
    /\ UNCHANGED <<unit, adapterVars, lockVars, loopVars, ev, rs, hs, hi, hlog, bt,
                   bres, mem>>

\* event.rs:85-89: store_message_record returns Ok or Err; Err is logged.
StoreRecordReturn(e, ok) ==
    /\ pm[e] = "store_message_record"
    /\ store_message_record(to_string(message_id(e)), ok)
    /\ appendRes' = [appendRes EXCEPT ![e] = IF ok THEN "Ok" ELSE "Err"]
    /\ errlog' = IF ok THEN errlog ELSE errlog \cup {<<"Event", e>>}
    /\ pm' = [pm EXCEPT ![e] = "lock_handlers"]
    /\ UNCHANGED <<unit, adapterVars, lockVars, loopVars, ev, rs, hs, hi, hlog, bt,
                   bres, mem>>

\* event.rs:92: bot_adapter.lock().await
HandlersLock(e) ==
    /\ pm[e] = "lock_handlers"
    /\ adapterLock = Free
    /\ adapterLock' = DispatchTask(e)
    /\ pm' = [pm EXCEPT ![e] = "handlers"]
    /\ UNCHANGED <<unit, adapterVars, storeLock, loopVars, ev, rs, hs, hi, hlog,
                   bt, bres, storeVars, errlog>>

\* event.rs:96-97: the for loop at position i of the cloned list `handlers`:
\* it calls handlers[i] and awaits it, or the list is exhausted and
\* process_message goes on to the lock of line 101.
for_handler(e, handlers, i, log) ==
    IF i <= Len(handlers)
    THEN /\ hlog' = [hlog EXCEPT ![e] = Append(log, <<"call", handlers[i]>>)]
         /\ pm' = [pm EXCEPT ![e] = "handler"]
    ELSE /\ hlog' = [hlog EXCEPT ![e] = log]
         /\ pm' = [pm EXCEPT ![e] = "lock_brain"]

\* process_message spawning the Brain Agent task before its for loop.
HandlersUnlock_brain_first(e) ==
    /\ pm[e] = "handlers"
    /\ adapterLock = DispatchTask(e)
    /\ adapterLock' = Free
    /\ hs' = [hs EXCEPT ![e] = get_event_handlers]
    /\ hi' = [hi EXCEPT ![e] = 1]
    /\ for_handler(e, get_event_handlers, 1, hlog[e])
    /\ bt' = [bt EXCEPT ![e] = IF get_brain_agent THEN "lock_adapter" ELSE @]
    /\ UNCHANGED <<unit, adapterVars, storeLock, loopVars, ev, rs, bres, storeVars,
                   errlog>>

\* event.rs:93-97: the handler list is cloned, the guard dropped and the for
\* loop entered.
HandlersUnlock(e) ==
    /\ pm[e] = "handlers"
    /\ adapterLock = DispatchTask(e)
    /\ adapterLock' = Free
    /\ hs' = [hs EXCEPT ![e] = get_event_handlers]
    /\ hi' = [hi EXCEPT ![e] = 1]
    /\ for_handler(e, get_event_handlers, 1, hlog[e])
    /\ UNCHANGED <<unit, adapterVars, storeLock, loopVars, ev, rs, bt, bres,
                   storeVars, errlog>>

\* event.rs:96-98: `.await` of the handler's future completes and the loop
\* moves to the next handler.
HandlerReturn(e) ==
    /\ pm[e] = "handler"
    /\ hi' = [hi EXCEPT ![e] = @ + 1]
    /\ for_handler(e, hs[e], hi[e] + 1,
                   Append(hlog[e], <<"return", hs[e][hi[e]]>>))
    /\ UNCHANGED <<unit, adapterVars, lockVars, loopVars, ev, rs, hs, bt, bres,
                   storeVars, errlog>>

\* event.rs:101: bot_adapter.lock().await
BrainLock(e) ==
    /\ pm[e] = "lock_brain"
    /\ adapterLock = Free
    /\ adapterLock' = DispatchTask(e)
    /\ pm' = [pm EXCEPT ![e] = "brain"]
    /\ UNCHANGED <<unit, adapterVars, storeLock, loopVars, ev, rs, hs, hi, hlog,
                   bt, bres, storeVars, errlog>>

\* process_message spawning a Brain Agent task whether or not the adapter
\* has a Brain Agent.
BrainUnlockSpawn_always(e) ==
    /\ pm[e] = "brain"
    /\ adapterLock = DispatchTask(e)
    /\ storeLock = DispatchTask(e)
    /\ adapterLock' = Free
    /\ storeLock' = Free
    /\ bt' = [bt EXCEPT ![e] = "lock_adapter"]
    /\ pm' = [pm EXCEPT ![e] = "done"]
    /\ UNCHANGED <<unit, adapterVars, loopVars, ev, rs, hs, hi, hlog, bres,
                   storeVars, errlog>>

\* event.rs:102-114: the Brain Agent handle is cloned and the guard dropped;
\* if there is one its task is spawned; process_message returns, which
\* drops store_guard.
BrainUnlockSpawn(e) ==
    /\ pm[e] = "brain"
    /\ adapterLock = DispatchTask(e)
    /\ storeLock = DispatchTask(e)
    /\ adapterLock' = Free
    /\ storeLock' = Free
    /\ bt' = [bt EXCEPT ![e] = IF get_brain_agent THEN "lock_adapter" ELSE @]
    /\ pm' = [pm EXCEPT ![e] = "done"]
    /\ UNCHANGED <<unit, adapterVars, loopVars, ev, rs, hs, hi, hlog, bres,
                   storeVars, errlog>>

\* ------------------------------------------------- the Brain Agent task
\* event.rs:108: bot_adapter_clone.lock().await
BrainTaskLock(e) ==
    /\ bt[e] = "lock_adapter"
    /\ adapterLock = Free
    /\ adapterLock' = BrainTask(e)
    /\ bt' = [bt EXCEPT ![e] = "on_event"]
    /\ UNCHANGED <<unit, adapterVars, storeLock, loopVars, ev, rs, pm, hs, hi, hlog,
                   bres, storeVars, errlog>>

\* A failed on_event undoing the event's raw put.
OnEventReturn_rollback(e, ok) ==
    /\ bt[e] = "on_event"
    /\ adapterLock = BrainTask(e)
    /\ adapterLock' = Free
    /\ bt' = [bt EXCEPT ![e] = "done"]
    /\ bres' = [bres EXCEPT ![e] = IF ok THEN "Ok" ELSE "Err"]
    /\ errlog' = IF ok THEN errlog ELSE errlog \cup {<<"Brain Agent", e>>}
    /\ mem' = IF ok THEN mem ELSE [mem EXCEPT ![msg_id(e)] = <<>>]
    /\ UNCHANGED <<unit, adapterVars, storeLock, loopVars, ev, rs, pm, hs, hi, hlog,
                   records, appendRes>>

\* event.rs:109-112: brain.on_event(&mut guard, &event) returns Ok or Err;
\* Err is logged; the task ends and drops the guard.
OnEventReturn(e, ok) ==
    /\ bt[e] = "on_event"
    /\ adapterLock = BrainTask(e)
    /\ adapterLock' = Free
    /\ bt' = [bt EXCEPT ![e] = "done"]
    /\ bres' = [bres EXCEPT ![e] = IF ok THEN "Ok" ELSE "Err"]
    /\ errlog' = IF ok THEN errlog ELSE errlog \cup {<<"Brain Agent", e>>}
    /\ UNCHANGED <<unit, adapterVars, storeLock, loopVars, ev, rs, pm, hs, hi, hlog,
                   storeVars>>

\* ---------------------------------------------------------------- Next
ReadLoop ==
    \/ StartLock
    \/ StartUnlock
    \/ \E ok \in BOOLEAN : Connect(ok)
    \/ \E f \in Frames : ReadFrame(f)
    \/ StreamEnd
    \/ ProcessEventLock
    \/ ProcessEventSpawn

RawStore(e) ==
    \/ RawStoreLock(e)
    \/ RawStoreReturn(e)

Dispatch(e) ==
    \/ BotIdLock(e)
    \/ BotIdUnlock(e)
    \/ StoreRecordLock(e)
    \/ \E ok \in BOOLEAN : StoreRecordReturn(e, ok)
    \/ HandlersLock(e)
    \/ HandlersUnlock(e)
    \/ HandlerReturn(e)
    \/ BrainLock(e)
    \/ BrainUnlockSpawn(e)

Brain(e) ==
    \/ BrainTaskLock(e)
    \/ \E ok \in BOOLEAN : OnEventReturn(e, ok)

Next ==
    \/ \E h \in HandlerIds : RegisterEventHandler(h)
    \/ ReadLoop
    \/ \E e \in Events : RawStore(e)
    \/ \E e \in Events : Dispatch(e)
    \/ \E e \in Events : Brain(e)

Spec == Init /\ [][Next]_vars

\* The pipeline on a tokio runtime that stays up: start is called, the read
\* loop is polled whenever it can go on, and so is every spawned task; a
\* store call, a handler and a Brain Agent call that were started return.
Fairness ==
    /\ WF_vars(ReadLoop)
    /\ \A e \in Events :
        /\ WF_vars(RawStore(e))
        /\ WF_vars(Dispatch(e))
        /\ WF_vars(Brain(e))

FairSpec == Spec /\ Fairness

\* The pipeline inside the process that main runs (main.rs:35, 120-126;
\* node_impl.rs:102-103 with its own runtime).  unit tells whether the
\* runtime is up.  When start has returned, main returns and the runtime is
\* shut down: a spawned task that has not finished is dropped at the await
\* it stands at and takes no further step.
InitMain == new("10001") /\ unit = <<"running">>

MainReturn ==
    /\ unit = <<"running">>
    /\ loopPc = "returned"
    /\ unit' = <<"exited">>
    /\ UNCHANGED pipelineVars

NextMain ==
    \/ unit = <<"running">> /\ Next
    \/ MainReturn

MainSpec ==
    /\ InitMain
    /\ [][NextMain]_vars
    /\ WF_vars(MainReturn)
    /\ WF_vars(unit = <<"running">> /\ ReadLoop)
    /\ \A e \in Events :
        /\ WF_vars(unit = <<"running">> /\ RawStore(e))
        /\ WF_vars(unit = <<"running">> /\ Dispatch(e))
        /\ WF_vars(unit = <<"running">> /\ Brain(e))

\* The pipeline of an adapter built from any identity a caller can configure.
SpecAnyQqId == InitAnyQqId /\ [][Next]_vars

TypeOK ==
    /\ event_handlers \in Seq(HandlerIds)
    /\ Len(event_handlers) <= MaxHandlers
    /\ brain_agent \in BOOLEAN
    /\ nread \in 0..MaxFrames
    /\ \A e \in Events :
        ev[e] \in {"none", "private", "group", "None", "Close", "Err", "Ping",
                   "Pong", "Frame", "invalid_utf8", "invalid_json",
                   "no_message_type", "bad_schema"}

\* ------------------------------------------------- one event, field by field
\* The conversion of one RawMessageEvent into its MessageEvent, its
\* MessageRecord and its handler calls, with the fields the pipeline above
\* leaves out.  unit is [pc, raw, event, record, handlers, calls].

\* Option<T>
None == <<>>
Some(v) == <<v>>

\* bot_adapter::models::message::Message, its three variants.
PlainText(text) == <<"PlainText", text>>
At(target) == <<"At", target>>
Reply(id) == <<"Reply", id>>

Segments ==
    {PlainText(<<"h", "i">>), At(None), At(Some(222)), At(Some(7)), Reply(99)}

MessageIds == {0 - 45, 0, 123}
UserIds == {9, 111}
GroupId == 8

BoundedSeq(S, n) == UNION {[1..k -> S] : k \in 0..n}

\* What serde_json::from_value::<RawMessageEvent> can yield.
RawMessageEvents ==
    {raw \in [message_id : MessageIds,
              message_type : {"Private", "Group"},
              sender : [user_id : UserIds, nickname : {"Alice"},
                        card : {"", "Ali"}],
              message : BoundedSeq(Segments, MaxSegments),
              group_id : {None, Some(GroupId)}] :
        (raw.message_type = "Group") <=> (raw.group_id # None)}

\* adapter.rs:278-286: the MessageEvent built from the RawMessageEvent.
MessageEvent(raw) ==
    [message_id |-> raw.message_id,
     message_type |-> raw.message_type,
     sender |-> raw.sender,
     message_list |-> raw.message,
     group_id |-> raw.group_id,
     is_group_message |-> (raw.message_type = "Group")]

\* Display of a Message (m.to_string()): the text of a PlainText, a mark and
\* the id for the other two.
Display(m) ==
    CASE m[1] = "PlainText" -> m[2]
      [] m[1] = "At" ->
            IF m[2] = None THEN <<"@">> ELSE <<"@">> \o to_string(m[2][1])
      [] m[1] = "Reply" -> <<"[">> \o to_string(m[2]) \o <<"]">>

\* [String]::join(sep): the strings with sep between neighbours.
RECURSIVE join(_, _)
join(list, sep) ==
    IF list = <<>> THEN <<>>
    ELSE IF Len(list) = 1 THEN list[1]
    ELSE list[1] \o sep \o join(Tail(list), sep)

\* The ids of the At segments, last one first.
RECURSIVE at_list_reversed(_)
at_list_reversed(message_list) ==
    IF message_list = <<>> THEN <<>>
    ELSE LET m == message_list[1]
         IN  at_list_reversed(Tail(message_list))
             \o (IF m[1] = "At" /\ m[2] # None
                 THEN <<to_string(m[2][1])>> ELSE <<>>)

\* event.rs:48-56: filter_map over message_list keeping, for every At with a
\* target, the target's to_string().
RECURSIVE at_list(_)
at_list(message_list) ==
    IF message_list = <<>> THEN <<>>
    ELSE LET m == message_list[1]
         IN  (IF m[1] = "At" /\ m[2] # None
              THEN <<to_string(m[2][1])>> ELSE <<>>)
             \o at_list(Tail(message_list))

\* BotAdapter::get_bot_id (adapter.rs:156-162)
get_bot_id == bot_profile

\* event.rs:47-70
at_target_list(event) ==
    IF event.is_group_message
    THEN IF at_list(event.message_list) = <<>>
         THEN None
         ELSE Some(join(at_list(event.message_list), <<",">>))
    ELSE Some(get_bot_id)

\* The nickname taken for every event.
sender_name_nickname(event) == event.sender.nickname

\* The card taken whenever there is one.
sender_name_card_first(event) ==
    IF event.sender.card # "" THEN event.sender.card ELSE event.sender.nickname

\* event.rs:40-44
sender_name(event) ==
    IF event.is_group_message /\ event.sender.card # ""
    THEN event.sender.card
    ELSE event.sender.nickname

\* event.rs:13-15: message_list.iter().map(|m| m.to_string()).collect()
messages(event) ==
    [i \in 1..Len(event.message_list) |-> Display(event.message_list[i])]

\* event.rs:73-82, without send_time (the clock at the time of the call) and
\* group_name.
MessageRecord(event) ==
    [message_id |-> to_string(event.message_id),
     sender_id |-> to_string(event.sender.user_id),
     sender_name |-> sender_name(event),
     group_id |-> IF event.group_id = None THEN None
                  ELSE Some(to_string(event.group_id[1])),
     content |-> join(messages(event), <<" ">>),
     at_target_list |-> at_target_list(event)]

InitRecord ==
    /\ \E qq_id \in QqIds : new(qq_id)
    /\ brain_agent = FALSE
    /\ unit \in [pc : {"process_event"}, raw : RawMessageEvents, event : {None},
                 record : {None}, handlers : {<<>>}, calls : {<<>>}]

\* register_event_handler, before any event.
RecordRegister(h) ==
    /\ unit.pc = "process_event"
    /\ RegisterEventHandler(h)

\* adapter.rs:278-306: process_event builds the event and hands it to
\* process_message.
RecordEvent ==
    /\ unit.pc = "process_event"
    /\ unit' = [unit EXCEPT !.pc = "process_message",
                            !.event = Some(MessageEvent(unit.raw))]
    /\ UNCHANGED pipelineVars

\* event.rs:13-94: process_message builds the record, hands it to
\* store_message_record and clones the handler list.
RecordBuild ==
    /\ unit.pc = "process_message"
    /\ unit' = [unit EXCEPT !.pc = "handlers",
                            !.record = Some(MessageRecord(unit.event[1])),
                            !.handlers = get_event_handlers]
    /\ UNCHANGED pipelineVars

\* event.rs:96-98: (handler)(&event, store.clone()).await for the next
\* handler of the list.
RecordHandler ==
    /\ unit.pc = "handlers"
    /\ Len(unit.calls) < Len(unit.handlers)
    /\ unit' = [unit EXCEPT !.calls =
                    Append(@, <<unit.handlers[Len(unit.calls) + 1],
                                unit.event[1].message_type>>)]
    /\ UNCHANGED pipelineVars

NextRecord ==
    \/ \E h \in HandlerIds : RecordRegister(h)
    \/ RecordEvent
    \/ RecordBuild
    \/ RecordHandler

RecordSpec == InitRecord /\ [][NextRecord]_vars

\* ------------------------------------------------- MessageStore on its own
\* util::message_store::MessageStore as message_store_tests.rs uses it: new,
\* store_message and get_message, after spec.md section 4.1.  unit is
\* [pc, store, latest, writes, before, last]: the store, for each key the
\* value of the latest store_message and whether there were none, one or
\* more of them, and the last two calls made on the store, each with its key,
\* its value or result, and whether Redis answered.
StoreKeys == {"id1", "id2"}
StoreValues == {"", "hello", "bar"}

\* What a Redis server reached through redis_url may hold from earlier runs.
RedisContents == [StoreKeys -> {None, Some("old")}]

\* MessageStore::new(redis_url): an empty memory tier, and the Redis tier
\* when a url is given.
MessageStore_new(redis_url, redis) ==
    [memory |-> [k \in StoreKeys |-> None],
     redis_url |-> redis_url,
     redis |-> IF redis_url THEN redis ELSE [k \in StoreKeys |-> None]]

\* store_message writing to Redis alone when Redis is configured.
MessageStore_store_message_redis_only(store, key, value, redis_ok) ==
    [store EXCEPT
        !.memory[key] = IF store.redis_url THEN @ ELSE Some(value),
        !.redis[key] = IF store.redis_url /\ redis_ok THEN Some(value) ELSE @]

\* store_message keeping the value a key already has.
MessageStore_store_message_keep_first(store, key, value, redis_ok) ==
    [store EXCEPT
        !.memory[key] = IF @ = None THEN Some(value) ELSE @,
        !.redis[key] = IF store.redis_url /\ redis_ok THEN Some(value) ELSE @]

\* MessageStore::store_message(key, value): the memory tier takes the value;
\* Redis, when configured, takes it too unless the command fails, which is
\* logged.
MessageStore_store_message(store, key, value, redis_ok) ==
    [store EXCEPT
        !.memory[key] = Some(value),
        !.redis[key] = IF store.redis_url /\ redis_ok THEN Some(value) ELSE @]

\* get_message asking Redis first.
MessageStore_get_message_redis_first(store, key, redis_ok) ==
    IF store.redis_url /\ redis_ok /\ store.redis[key] # None
    THEN store.redis[key]
    ELSE store.memory[key]

\* MessageStore::get_message(key): the memory tier first, then Redis when it
\* is configured and answers.
MessageStore_get_message(store, key, redis_ok) ==
    IF store.memory[key] # None THEN store.memory[key]
    ELSE IF store.redis_url /\ redis_ok THEN store.redis[key]
    ELSE None

InitStore ==
    /\ new("10001")
    /\ brain_agent = FALSE
    /\ \E redis_url \in BOOLEAN, redis \in RedisContents :
        unit = [pc |-> "store",
                store |-> MessageStore_new(redis_url, redis),
                latest |-> [k \in StoreKeys |-> None],
                writes |-> [k \in StoreKeys |-> 0],
                before |-> <<"new">>,
                last |-> <<"new">>]

\* message_store_tests.rs:9, 17-18, 32: store.store_message(key, value).await
StorePut(key, value, redis_ok) ==
    /\ unit.pc = "store"
    /\ unit' = [unit EXCEPT
                    !.store = MessageStore_store_message(@, key, value, redis_ok),
                    !.latest[key] = Some(value),
                    !.writes[key] = IF @ = 0 THEN 1 ELSE 2,
                    !.before = unit.last,
                    !.last = <<"store_message", key, value, redis_ok>>]
    /\ UNCHANGED pipelineVars

\* message_store_tests.rs:10, 19, 33: store.get_message(key).await
StoreGet(key, redis_ok) ==
    /\ unit.pc = "store"
    /\ unit' = [unit EXCEPT
                    !.before = unit.last,
                    !.last = <<"get_message", key,
                               MessageStore_get_message(unit.store, key, redis_ok),
                               redis_ok>>]
    /\ UNCHANGED pipelineVars

NextStore ==
    \/ \E key \in StoreKeys, value \in StoreValues, redis_ok \in BOOLEAN :
            StorePut(key, value, redis_ok)
    \/ \E key \in StoreKeys, redis_ok \in BOOLEAN : StoreGet(key, redis_ok)

StoreSpec == InitStore /\ [][NextStore]_vars

\* ------------------------------------------- the store with its MySQL tier
\* MessageStore with a database_url, after spec.md section 4.1: the log of
\* records in MySQL, store_message_record with its reconnect policy, and
\* load_messages_from_mysql.  unit is [pc, store, latest, call, ret, dial]:
\* where the store is in a call, the store, the value of the latest
\* store_message per key, the call made last with its return value, and
\* whether the last step tried to connect to MySQL and how that went.
MaxAttempts == 2
MaxLimit == 2

Ok(v) == <<"Ok", v>>
Err == <<"Err">>
Unit == "()"

Min(a, b) == IF a < b THEN a ELSE b

\* The message ids the store sees, and what the message of each id says.
TierKeys == {"id1", "id2", "id3"}
RecordContent == [k \in TierKeys |->
                    CASE k = "id1" -> "one" [] k = "id2" -> "two" [] OTHER -> "three"]
TierRecord(k) == [message_id |-> k, content |-> RecordContent[k]]

\* What the messages table may hold from earlier runs, oldest record first.
MysqlContents ==
    {<<>>, <<TierRecord("id2")>>, <<TierRecord("id2"), TierRecord("id3")>>,
     <<TierRecord("id2"), TierRecord("id3"), TierRecord("id1")>>}

\* MessageStore::new(redis_url, database_url, .., mysql_reconnect_max_attempts,
\* mysql_reconnect_interval_secs), here without a redis_url.
MessageStore_new_mysql(database_url, mysql, mysql_reconnect_max_attempts) ==
    [memory |-> [k \in TierKeys |-> None],
     redis_url |-> FALSE,
     redis |-> [k \in TierKeys |-> None],
     database_url |-> database_url,
     mysql |-> IF database_url THEN mysql ELSE <<>>,
     mysql_reconnect_max_attempts |-> mysql_reconnect_max_attempts,
     retries |-> 0,
     gave_up |-> FALSE]

\* The limit oldest records of the log.
RECURSIVE oldest(_, _)
oldest(log, limit) ==
    IF limit = 0 \/ log = <<>> THEN <<>>
    ELSE <<Head(log)>> \o oldest(Tail(log), limit - 1)

\* The limit most recent records of the log, most recent first
\* (ORDER BY send_time DESC LIMIT limit).
RECURSIVE most_recent(_, _)
most_recent(log, limit) ==
    IF limit = 0 \/ log = <<>> THEN <<>>
    ELSE <<log[Len(log)]>> \o most_recent(SubSeq(log, 1, Len(log) - 1), limit - 1)

\* The memory tier after the records were put into it one by one.
RECURSIVE cache_records(_, _)
cache_records(memory, loaded) ==
    IF loaded = <<>> THEN memory
    ELSE cache_records([memory EXCEPT ![Head(loaded).message_id] =
                                            Some(Head(loaded).content)],
                       Tail(loaded))

InitTier ==
    /\ new("10001")
    /\ brain_agent = FALSE
    /\ \E database_url \in BOOLEAN, mysql \in MysqlContents,
          mysql_reconnect_max_attempts \in 0..MaxAttempts :
        unit = [pc |-> "idle",
                store |-> MessageStore_new_mysql(database_url, mysql,
                                                 mysql_reconnect_max_attempts),
                latest |-> [k \in TierKeys |-> None],
                call |-> <<"new">>,
                ret |-> <<>>,
                dial |-> "none"]

\* store.store_message(key, value).await
TierPut(key, value) ==
    /\ unit.pc = "idle"
    /\ unit' = [unit EXCEPT
                    !.store = MessageStore_store_message(@, key, value, FALSE),
                    !.latest[key] = Some(value),
                    !.call = <<"store_message", key, value>>,
                    !.ret = <<>>,
                    !.dial = "none"]
    /\ UNCHANGED pipelineVars

\* store.get_message(key).await
TierGet(key) ==
    /\ unit.pc = "idle"
    /\ unit' = [unit EXCEPT
                    !.call = <<"get_message", key>>,
                    !.ret = MessageStore_get_message(unit.store, key, FALSE),
                    !.dial = "none"]
    /\ UNCHANGED pipelineVars

\* store.store_message_record(&record).await, up to the first answer of
\* MySQL: without a database_url nothing is written and the call succeeds;
\* after the store gave up the call fails at once; a failed connection starts
\* the reconnect attempts, if any are allowed.
TierAppend(record, ok) ==
    /\ unit.pc = "idle"
    /\ \A i \in 1..Len(unit.store.mysql) :
            unit.store.mysql[i].message_id # record.message_id
    /\ LET call == <<"store_message_record", record.message_id>> IN
        unit' =
            IF ~unit.store.database_url
            THEN [unit EXCEPT !.call = call, !.ret = Ok(Unit), !.dial = "none"]
            ELSE IF unit.store.gave_up
            THEN [unit EXCEPT !.call = call, !.ret = Err, !.dial = "none"]
            ELSE IF ok
            THEN [unit EXCEPT !.store.mysql = Append(@, record),
                              !.call = call, !.ret = Ok(Unit), !.dial = "ok"]
            ELSE IF unit.store.mysql_reconnect_max_attempts = 0
            THEN [unit EXCEPT !.store.gave_up = TRUE,
                              !.call = call, !.ret = Err, !.dial = "failed"]
            ELSE [unit EXCEPT !.pc = "sleep", !.store.retries = 0,
                              !.call = call, !.ret = <<>>, !.dial = "failed"]
    /\ UNCHANGED pipelineVars

\* tokio::time::sleep(mysql_reconnect_interval_secs) before a reconnect.
TierSleep ==
    /\ unit.pc = "sleep"
    /\ unit' = [unit EXCEPT !.pc = "reconnect", !.dial = "none"]
    /\ UNCHANGED pipelineVars

\* Reconnect attempts without an end.
TierReconnect_forever(ok) ==
    /\ unit.pc = "reconnect"
    /\ LET retries == unit.store.retries + 1
           record == TierRecord(unit.call[2]) IN
        unit' =
            IF ok
            THEN [unit EXCEPT !.pc = "idle", !.store.retries = retries,
                              !.store.mysql = Append(@, record),
                              !.ret = Ok(Unit), !.dial = "ok"]
            ELSE [unit EXCEPT !.pc = "sleep", !.store.retries = retries,
                              !.dial = "failed"]
    /\ UNCHANGED pipelineVars

\* One reconnect attempt: on success the record is written; on failure the
\* store sleeps again, or gives up when this was the last attempt allowed.
TierReconnect(ok) ==
    /\ unit.pc = "reconnect"
    /\ LET retries == unit.store.retries + 1
           record == TierRecord(unit.call[2]) IN
        unit' =
            IF ok
            THEN [unit EXCEPT !.pc = "idle", !.store.retries = retries,
                              !.store.mysql = Append(@, record),
                              !.ret = Ok(Unit), !.dial = "ok"]
            ELSE IF retries < unit.store.mysql_reconnect_max_attempts
            THEN [unit EXCEPT !.pc = "sleep", !.store.retries = retries,
                              !.dial = "failed"]
            ELSE [unit EXCEPT !.pc = "idle", !.store.retries = retries,
                              !.store.gave_up = TRUE,
                              !.ret = Err, !.dial = "failed"]
    /\ UNCHANGED pipelineVars

\* load_messages_from_mysql failing when there is no database_url.
MessageStore_load_messages_from_mysql_strict(store, limit, ok) ==
    IF ~store.database_url \/ store.gave_up \/ ~ok
    THEN [store |-> store, ret |-> Err]
    ELSE LET loaded == most_recent(store.mysql, limit) IN
         [store |-> [store EXCEPT !.memory = cache_records(@, loaded)],
          ret |-> Ok(Len(loaded))]

\* MessageStore::load_messages_from_mysql(limit): without a database_url
\* Ok(0); when MySQL cannot be reached an error and nothing loaded; otherwise
\* the records read are put into the memory tier and counted.
MessageStore_load_messages_from_mysql(store, limit, ok) ==
    IF ~store.database_url THEN [store |-> store, ret |-> Ok(0)]
    ELSE IF store.gave_up \/ ~ok THEN [store |-> store, ret |-> Err]
    ELSE LET loaded == most_recent(store.mysql, limit) IN
         [store |-> [store EXCEPT !.memory = cache_records(@, loaded)],
          ret |-> Ok(Len(loaded))]

\* store.load_messages_from_mysql(limit).await
TierLoad(limit, ok) ==
    /\ unit.pc = "idle"
    /\ LET r == MessageStore_load_messages_from_mysql(unit.store, limit, ok) IN
        unit' = [unit EXCEPT
                    !.store = r.store,
                    !.call = <<"load_messages_from_mysql", limit>>,
                    !.ret = r.ret,
                    !.dial = IF ~unit.store.database_url \/ unit.store.gave_up
                             THEN "none"
                             ELSE IF ok THEN "ok" ELSE "failed"]
    /\ UNCHANGED pipelineVars

NextTier ==
    \/ \E key \in TierKeys : TierPut(key, "hello")
    \/ \E key \in TierKeys : TierGet(key)
    \/ \E key \in TierKeys, ok \in BOOLEAN : TierAppend(TierRecord(key), ok)
    \/ TierSleep
    \/ \E ok \in BOOLEAN : TierReconnect(ok)
    \/ \E limit \in 0..MaxLimit, ok \in BOOLEAN : TierLoad(limit, ok)

TierSpec == InitTier /\ [][NextTier]_vars

\* ------------------------------------------- BotAdapter::new, step by step
\* The construction of the adapter (adapter.rs:106-149) followed by start
\* (main.rs:120-123) and its read loop.  unit is [store, loads, ret]: the
\* store MessageStore::new returned, the number of load_messages_from_mysql
\* calls made on it, and what the last of them returned.  loopPc is
\* "load_messages" after MessageStore::new, "return_self" after the load, and
\* "new" once BotAdapter::new has returned.
HydrateLimit == 1000

InitNew ==
    /\ event_handlers = <<>>
    /\ brain_agent \in BOOLEAN
    /\ bot_profile = ""
    /\ adapterLock = Free
    /\ storeLock = Free
    /\ loopPc = "load_messages"
    /\ startResult = "none"
    /\ nread = 0
    /\ ev = [e \in Events |-> "none"]
    /\ rs = [e \in Events |-> "none"]
    /\ pm = [e \in Events |-> "none"]
    /\ hs = [e \in Events |-> <<>>]
    /\ hi = [e \in Events |-> 0]
    /\ hlog = [e \in Events |-> <<>>]
    /\ bt = [e \in Events |-> "none"]
    /\ bres = [e \in Events |-> "none"]
    /\ mem = [k \in Keys |-> <<>>]
    /\ records = [k \in Keys |-> <<>>]
    /\ appendRes = [e \in Events |-> "none"]
    /\ errlog = {}
    /\ \E database_url \in BOOLEAN, mysql \in MysqlContents :
        unit = [store |-> MessageStore_new_mysql(database_url, mysql, 0),
                loads |-> 0,
                ret |-> <<>>]

\* BotAdapter::new returning the error of the load to its caller.
NewLoad_fatal(ok) ==
    /\ loopPc = "load_messages"
    /\ LET r == MessageStore_load_messages_from_mysql(unit.store, HydrateLimit, ok) IN
        /\ unit' = [unit EXCEPT !.store = r.store, !.ret = r.ret,
                                !.loads = @ + 1]
        /\ IF r.ret = Err
           THEN loopPc' = "returned" /\ startResult' = "Err"
           ELSE loopPc' = "return_self" /\ UNCHANGED startResult
    /\ UNCHANGED <<adapterVars, lockVars, nread, taskVars, storeVars, errlog>>

\* adapter.rs:129-136: the store is locked, load_messages_from_mysql(1000) is
\* awaited, and its result is logged, info! for Ok(count) and warn! for Err.
NewLoad(ok) ==
    /\ loopPc = "load_messages"
    /\ LET r == MessageStore_load_messages_from_mysql(unit.store, HydrateLimit, ok) IN
        unit' = [unit EXCEPT !.store = r.store, !.ret = r.ret, !.loads = @ + 1]
    /\ loopPc' = "return_self"
    /\ UNCHANGED <<adapterVars, lockVars, startResult, nread, taskVars,
                   storeVars, errlog>>

\* adapter.rs:138-148: Self { .. } with the bot's profile, no handlers and
\* the Brain Agent of the config.
NewReturn ==
    /\ loopPc = "return_self"
    /\ bot_profile' = "10001"
    /\ event_handlers' = <<>>
    /\ loopPc' = "new"
    /\ UNCHANGED <<unit, brain_agent, lockVars, startResult, nread, taskVars,
                   storeVars, errlog>>

NextNew ==
    \/ \E ok \in BOOLEAN : NewLoad(ok)
    \/ NewReturn
    \/ \E h \in HandlerIds : RegisterEventHandler(h)
    \/ ReadLoop

NewSpec == InitNew /\ [][NextNew]_vars

\* ------------------------------------------- the Host header of the request
\* extract_host (util/url_utils.rs) and its use in start (adapter.rs:196-199).
\* A url is the sequence of its characters.  unit is [pc, url, host, header]:
\* the url of the config, what extract_host returned for it, and the value
\* of the Host header of the upgrade request.
UrlSchemes ==
    {<<>>,
     <<"w", "s", ":", "/", "/">>,
     <<"w", "s", "s", ":", "/", "/">>,
     <<"W", "S", ":", "/", "/">>,
     <<"w", "s", ":", "/">>,
     <<"h", "t", "t", "p", ":", "/", "/">>}
UrlHosts ==
    {<<>>, <<"h">>, <<"a", ".", "b">>, <<"w", "s">>}
UrlTails ==
    {<<>>, <<":", "8", "0">>, <<"/", "p">>, <<":", "8", "0", "/", "p">>,
     <<"/", "p", ":", "1">>, <<"/">>, <<":">>, <<"/", "/", "x">>}
Urls == {scheme \o host \o tail :
            scheme \in UrlSchemes, host \in UrlHosts, tail \in UrlTails}

\* str::strip_prefix(prefix): the rest of the string when it starts with the
\* prefix, None otherwise.
strip_prefix(str, prefix) ==
    IF Len(prefix) <= Len(str) /\ SubSeq(str, 1, Len(prefix)) = prefix
    THEN Some(SubSeq(str, Len(prefix) + 1, Len(str)))
    ELSE None

\* str::split(sep).next(): the first piece, the text before the first sep or
\* the whole string when it has none; always Some.
RECURSIVE before_first(_, _)
before_first(str, sep) ==
    IF str = <<>> \/ Head(str) = sep THEN <<>>
    ELSE <<Head(str)>> \o before_first(Tail(str), sep)
split_next(str, sep) == Some(before_first(str, sep))

\* Option::or_else and Option::and_then with the closures of extract_host.
or_else_strip(opt, url, prefix) ==
    IF opt # None THEN opt ELSE strip_prefix(url, prefix)
and_then_split(opt, sep) ==
    IF opt = None THEN None ELSE split_next(opt[1], sep)

\* extract_host leaving the port where it is.
extract_host_with_port(url) ==
    and_then_split(
        or_else_strip(strip_prefix(url, <<"w", "s", ":", "/", "/">>),
                      url, <<"w", "s", "s", ":", "/", "/">>),
        "/")

\* util/url_utils.rs:2-7
extract_host(url) ==
    and_then_split(
        and_then_split(
            or_else_strip(strip_prefix(url, <<"w", "s", ":", "/", "/">>),
                          url, <<"w", "s", "s", ":", "/", "/">>),
            "/"),
        ":")

\* Option::unwrap_or
unwrap_or(opt, default) == IF opt = None THEN default ELSE opt[1]

InitUrl ==
    /\ new("10001")
    /\ brain_agent = FALSE
    /\ \E url \in Urls :
        unit = [pc |-> "url", url |-> url, host |-> None, header |-> <<>>]

\* adapter.rs:199: extract_host(&url)
UrlExtract ==
    /\ unit.pc = "url"
    /\ unit' = [unit EXCEPT !.pc = "extracted", !.host = extract_host(unit.url)]
    /\ UNCHANGED pipelineVars

\* adapter.rs:199: .header("Host", _.unwrap_or("localhost"))
UrlHeader ==
    /\ unit.pc = "extracted"
    /\ unit' = [unit EXCEPT
                    !.pc = "request",
                    !.header = unwrap_or(unit.host,
                        <<"l", "o", "c", "a", "l", "h", "o", "s", "t">>)]
    /\ UNCHANGED pipelineVars

NextUrl == UrlExtract \/ UrlHeader

UrlSpec == InitUrl /\ [][NextUrl]_vars

\* ------------------------------------------------- node::NodeGraph
\* node/mod.rs:214: links is a Vec, which the model lets grow this far
MaxLinks == 2

\* node/mod.rs:10-20: the data types the ports and links below carry
DataTypes == {"String", "Integer"}

\* the ids node.id() returns, and the port names
NodeIds == {"a", "b"}
PortNames == {"x", "y"}

\* node/mod.rs:46-52
Port_new(name, data_type) == [name |-> name, data_type |-> data_type]

\* node/mod.rs:136-152: a Box<dyn Node>, as what id(), name(), input_ports()
\* and output_ports() return
NodeOf(id, name, input_ports, output_ports) ==
    [id |-> id, name |-> name,
     input_ports |-> input_ports, output_ports |-> output_ports]

\* the nodes handed to add_node: two for each id, one of them with two
\* output ports of one name
NodePool ==
    { NodeOf("a", "n1", <<>>,
             <<Port_new("x", "String"), Port_new("y", "Integer")>>),
      NodeOf("a", "n2", <<Port_new("x", "Integer")>>,
             <<Port_new("x", "Integer"), Port_new("x", "String")>>),
      NodeOf("b", "n3", <<Port_new("x", "String"), Port_new("y", "String")>>,
             <<>>),
      NodeOf("b", "n4", <<Port_new("y", "Integer")>>,
             <<Port_new("y", "Integer")>>) }

\* node/mod.rs:98-122: the links handed to add_link
Links ==
    [from_node : NodeIds, from_port : PortNames,
     to_node : NodeIds, to_port : PortNames, data_type : DataTypes]

\* error.rs:41
ValidationError(msg) == <<"Err", "ValidationError", msg>>

\* HashMap<String, Box<dyn Node>>: None at the keys that are absent
contains_key(map, k) == map[k] # None
get(map, k) == map[k]
insert(map, k, v) == [map EXCEPT ![k] = Some(v)]

\* ports.iter().find(|p| p.name == name)
RECURSIVE find(_, _)
find(ports, name) ==
    IF ports = <<>> THEN None
    ELSE IF Head(ports).name = name THEN Some(Head(ports))
    ELSE find(Tail(ports), name)

\* node/mod.rs:218-223
NodeGraph_new == [nodes |-> [k \in NodeIds |-> None], links |-> <<>>]

NodeGraph_add_node_replace(g, node) ==
    [graph |-> [g EXCEPT !.nodes = insert(g.nodes, node.id, node)],
     result |-> Ok(Unit)]

\* node/mod.rs:226-236
NodeGraph_add_node(g, node) ==
    LET id == node.id IN
    IF contains_key(g.nodes, id)
    THEN [graph |-> g,
          result |-> ValidationError("Node with id already exists")]
    ELSE [graph |-> [g EXCEPT !.nodes = insert(g.nodes, id, node)],
          result |-> Ok(Unit)]

NodeGraph_add_link_any_type(g, link) ==
    LET from_node == get(g.nodes, link.from_node)
        to_node == get(g.nodes, link.to_node)
    IN  IF from_node = None
        THEN [graph |-> g, result |-> ValidationError("From node not found")]
        ELSE IF to_node = None
        THEN [graph |-> g, result |-> ValidationError("To node not found")]
        ELSE
        LET from_port == find(from_node[1].output_ports, link.from_port)
            to_port == find(to_node[1].input_ports, link.to_port)
        IN  IF from_port = None
            THEN [graph |-> g,
                  result |-> ValidationError("Output port not found in node")]
            ELSE IF to_port = None
            THEN [graph |-> g,
                  result |-> ValidationError("Input port not found in node")]
            ELSE [graph |-> [g EXCEPT !.links = Append(g.links, link)],
                  result |-> Ok(Unit)]

\* node/mod.rs:239-288
NodeGraph_add_link(g, link) ==
    LET from_node == get(g.nodes, link.from_node)
        to_node == get(g.nodes, link.to_node)
    IN  IF from_node = None
        THEN [graph |-> g, result |-> ValidationError("From node not found")]
        ELSE IF to_node = None
        THEN [graph |-> g, result |-> ValidationError("To node not found")]
        ELSE
        LET from_port == find(from_node[1].output_ports, link.from_port)
            to_port == find(to_node[1].input_ports, link.to_port)
        IN  IF from_port = None
            THEN [graph |-> g,
                  result |-> ValidationError("Output port not found in node")]
            ELSE IF to_port = None
            THEN [graph |-> g,
                  result |-> ValidationError("Input port not found in node")]
            ELSE IF from_port[1].data_type # to_port[1].data_type
            THEN [graph |-> g, result |-> ValidationError("Type mismatch")]
            ELSE [graph |-> [g EXCEPT !.links = Append(g.links, link)],
                  result |-> Ok(Unit)]

InitGraph ==
    /\ new("10001")
    /\ brain_agent = FALSE
    /\ unit = [graph |-> NodeGraph_new, call |-> <<"new">>,
               result |-> Ok(Unit)]

\* graph.add_node(node)
GraphAddNode ==
    /\ \E node \in NodePool :
        LET r == NodeGraph_add_node(unit.graph, node) IN
        unit' = [graph |-> r.graph, call |-> <<"add_node", node>>,
                 result |-> r.result]
    /\ UNCHANGED pipelineVars

\* graph.add_link(link)
GraphAddLink ==
    /\ \E link \in Links :
        LET r == NodeGraph_add_link(unit.graph, link) IN
        /\ Len(r.graph.links) <= MaxLinks
        /\ unit' = [graph |-> r.graph, call |-> <<"add_link", link>>,
                    result |-> r.result]
    /\ UNCHANGED pipelineVars

NextGraph == GraphAddNode \/ GraphAddLink

GraphSpec == InitGraph /\ [][NextGraph]_vars

\* ---------------------------------------------------------------- claims
IsPrefix(s, t) ==
    /\ Len(s) <= Len(t)
    /\ \A i \in 1..Len(s) : s[i] = t[i]

\* The handler chain of a list: call H1, return H1, call H2, return H2, ...
Chain(handlers) ==
    [i \in 1..(2 * Len(handlers)) |->
        IF i % 2 = 1
        THEN <<"call", handlers[(i + 1) \div 2]>>
        ELSE <<"return", handlers[i \div 2]>>]

\* The for loop of process_message is over for event e.
ChainOver(e) == pm[e] \in {"lock_brain", "brain", "done"}

\* C1: for the registered handlers H1..Hn and any dispatched event, what
\* process_message has called and awaited so far is a prefix of call H1,
\* return H1, ..., call Hn, return Hn (registration order, one at a time, the
\* next one called only after the previous one returned), and once its for
\* loop is over it is exactly that chain: every handler once.  This is so
\* with no Brain Agent, with one that succeeds and with one that fails.
C1_HandlerOrder ==
    LET chain == Chain(event_handlers)
    IN  \A e \in Events :
            /\ IsPrefix(hlog[e], chain)
            /\ pm[e] = "handler" => Len(hlog[e]) % 2 = 1
            /\ ChainOver(e) => hlog[e] = chain

\* An event went through a chain of at least two handlers and its Brain Agent
\* call failed.
C1_Witness ==
    \E e \in Events :
        /\ Len(event_handlers) >= 2
        /\ hlog[e] = Chain(event_handlers)
        /\ bres[e] = "Err"

\* The holder of the adapter lock is a dispatch task at one of its three
\* copies of metadata, and can drop the lock by itself.
DispatchCopies(e) ==
    /\ adapterLock = DispatchTask(e)
    /\ ENABLED (BotIdUnlock(e) \/ HandlersUnlock(e) \/ BrainUnlockSpawn(e))

\* C2: the read loop never waits for a store operation or a handler.  With
\* frames left its read is enabled; inside process_event its lock().await is
\* enabled as soon as the adapter lock is free, whoever holds the store lock
\* and whatever put, store_message_record or handler is still running; the
\* spawn that follows is always enabled; and the adapter lock it may have to
\* wait for is held only by a Brain Agent task or by a dispatch task that is
\* copying metadata, never by one inside a store call or a handler.
C2_ReadLoopDoesNotWait ==
    /\ (loopPc = "connected" /\ nread < MaxFrames)
           => ENABLED (\E f \in Frames : ReadFrame(f))
    /\ (loopPc = "lock_store_handle" /\ adapterLock = Free)
           => ENABLED ProcessEventLock
    /\ loopPc = "store_handle" => ENABLED ProcessEventSpawn
    /\ (loopPc = "lock_store_handle" /\ adapterLock # Free)
           => \E e \in Events : adapterLock = BrainTask(e) \/ DispatchCopies(e)

\* Event 1 is in a handler, its raw put has not even got the store lock, and
\* the tasks of event 2 have been spawned.
C2_Witness ==
    /\ pm[1] = "handler"
    /\ rs[1] = "lock_store"
    /\ pm[2] # "none"
    /\ rs[2] # "none"

\* C3: while the Brain Agent call of an event is in progress, the read loop
\* standing at the lock().await of process_event can take the lock and go on.
C3_BrainDoesNotBlockReadLoop ==
    \A e \in Events :
        (bt[e] = "on_event" /\ loopPc = "lock_store_handle")
            => ENABLED ProcessEventLock

\* C4: while the Brain Agent call of event e1 is in progress, the dispatch
\* task of another event e2 can go on to its store_message_record and to its
\* handlers: its lock().await for the bot id and for the handler list are
\* enabled.
C4_BrainDoesNotBlockOtherEvents ==
    \A e1, e2 \in Events :
        (e1 # e2 /\ bt[e1] = "on_event") =>
            /\ pm[e2] = "lock_bot_id" => ENABLED BotIdLock(e2)
            /\ pm[e2] = "lock_handlers" => ENABLED HandlersLock(e2)

\* C5: while a handler of event e1 is running, the raw put and the
\* store_message_record of another event e2 can go on: their lock().await on
\* the store are enabled.
C5_HandlerDoesNotStallPersistence ==
    \A e1, e2 \in Events :
        (e1 # e2 /\ pm[e1] = "handler") =>
            /\ rs[e2] = "lock_store" => ENABLED RawStoreLock(e2)
            /\ pm[e2] = "lock_store" => ENABLED StoreRecordLock(e2)

C7_BrainConcurrentWithHandlers ==
    \A e \in Events :
        (brain_agent /\ pm[e] = "handler" /\ adapterLock = Free)
            => ENABLED BrainTaskLock(e)

\* C7, amended: the Brain Agent call of an event runs in a task of its own,
\* which the dispatch task spawns only after the last handler of that event
\* has returned: the task exists only once the whole chain is over, and never
\* without a Brain Agent configured.
C7_BrainAfterHandlers ==
    \A e \in Events :
        bt[e] # "none" =>
            /\ brain_agent
            /\ pm[e] = "done"
            /\ hlog[e] = Chain(hs[e])

\* The Brain Agent call of an event is in progress after two handlers.
C7_Witness ==
    \E e \in Events :
        /\ bt[e] = "on_event"
        /\ Len(hs[e]) >= 2
        /\ hlog[e] = Chain(hs[e])

\* The step is the return of a failed on_event for event e.
BrainFails(e) == bres[e] = "none" /\ bres'[e] = "Err"

\* C8: a failing Brain Agent call changes neither the handlers invoked nor
\* the raw put or the store_message_record of any event.  When it fails for
\* an event, all handlers of that event have been called once, in order, and
\* its store_message_record has returned; the failing step itself leaves the
\* handler logs, both store tiers, the results and the other tasks as they
\* are, and writes the error to the log.
C8_BrainFailureIsolated ==
    /\ [](\A e \in Events :
            bres[e] = "Err" =>
                /\ hlog[e] = Chain(event_handlers)
                /\ appendRes[e] \in {"Ok", "Err"}
                /\ <<"Brain Agent", e>> \in errlog)
    /\ [][\A e \in Events :
            BrainFails(e) =>
                UNCHANGED <<hlog, mem, records, appendRes, rs, pm, storeLock>>]_vars

\* The Brain Agent call failed for an event that went through two handlers
\* and whose raw put and record are both written.
C8_Witness ==
    \E e \in Events :
        /\ bres[e] = "Err"
        /\ mem[msg_id(e)] # <<>>
        /\ records[msg_id(e)] = <<"Ok">>
        /\ Len(hlog[e]) >= 2

\* C9: no task holds the store lock across a store call: while the put or
\* the store_message_record of one task is in flight, another task at its
\* lock().await on the store can take the lock and start its own.
C9_NoStoreLockAcrossRoundTrip ==
    \A e1, e2 \in Events :
        (rs[e1] = "store_message" \/ pm[e1] = "store_message_record") =>
            /\ (e1 # e2 /\ rs[e2] = "lock_store") => ENABLED RawStoreLock(e2)
            /\ (e1 # e2 /\ pm[e2] = "lock_store") => ENABLED StoreRecordLock(e2)
            /\ pm[e1] = "lock_store" => ENABLED StoreRecordLock(e1)
            /\ rs[e1] = "lock_store" => ENABLED RawStoreLock(e1)

\* C10: the adapter lock is held only by a task that is copying metadata out
\* of the adapter: start copying url and token, process_event copying the
\* store handle, process_message copying the bot id, the handler list or the
\* Brain Agent handle.  It is never held by a task that is inside a handler,
\* a Brain Agent call or a store call.
C10_AdapterLockOnlyForMetadata ==
    /\ adapterLock = LoopTask => loopPc \in {"start_copy", "store_handle"}
    /\ \A e \in Events :
        /\ adapterLock = DispatchTask(e) => pm[e] \in {"bot_id", "handlers", "brain"}
        /\ adapterLock # RawTask(e)
        /\ bt[e] = "on_event" => adapterLock # BrainTask(e)

\* Nothing was stored, dispatched or handed to a consumer for the e-th frame.
NoTrace(e) ==
    /\ rs[e] = "none" /\ pm[e] = "none" /\ bt[e] = "none"
    /\ hs[e] = <<>> /\ hlog[e] = <<>>
    /\ appendRes[e] = "none" /\ bres[e] = "none"
    /\ mem[msg_id(e)] = <<>> /\ records[msg_id(e)] = <<>>

\* The e-th frame was one of the given kinds of undecodable frame: it left no
\* trace, and as long as it is the last frame read the loop is at read.next()
\* with the connection open, start has not returned, and any further frame
\* can be read.
DroppedAndLoopGoesOn(e, kinds) ==
    ev[e] \in kinds =>
        /\ NoTrace(e)
        /\ nread = e => (loopPc = "connected" /\ startResult = "none")
        /\ (nread = e /\ e < MaxFrames) => \A f \in Frames : ENABLED ReadFrame(f)

\* C11: a text or binary frame whose JSON has no message_type field causes
\* no raw put, no store_message_record, no handler call and no Brain Agent
\* call, and the read loop goes on to the next frame.
C11_NoMessageTypeIgnored ==
    [](\A e \in Events : DroppedAndLoopGoesOn(e, {"no_message_type"}))

\* A frame without message_type was read first and the event of the frame
\* after it went through the whole dispatch.
C11_Witness ==
    /\ MaxFrames >= 2
    /\ ev[1] = "no_message_type"
    /\ ev[2] \in {"private", "group"}
    /\ pm[2] = "done"
    /\ rs[2] = "done"

\* C12: a frame that fails decoding (a binary frame that is not UTF-8, a text
\* that is not JSON, a JSON value that is not a RawMessageEvent) is dropped
\* with no store write and no dispatch, the connection stays open, and the
\* loop reads and processes the frame after it.
C12_DecodeFailureDropped ==
    [](\A e \in Events :
        DroppedAndLoopGoesOn(e, {"invalid_utf8", "invalid_json", "bad_schema"}))

\* Two frames that fail decoding in different ways were read, and the loop is
\* still connected.
C12_Witness ==
    /\ MaxFrames >= 2
    /\ ev[1] \in {"invalid_utf8", "invalid_json", "bad_schema"}
    /\ ev[2] \in {"invalid_utf8", "invalid_json", "bad_schema"}
    /\ ev[1] # ev[2]
    /\ loopPc = "connected"

\* Connection Manager state of a position of start.
ConnState(pc) ==
    CASE pc \in {"new", "start_copy"} -> "Disconnected"
      [] pc = "connecting" -> "Connecting"
      [] pc \in {"connected", "lock_store_handle", "store_handle"} -> "Connected"
      [] pc = "returned" -> "Closed"

\* The moves of the Connection Manager; a failed handshake closes the attempt
\* from Connecting.
ConnMoves ==
    {<<"Disconnected", "Disconnected">>, <<"Disconnected", "Connecting">>,
     <<"Connecting", "Connected">>, <<"Connecting", "Closed">>,
     <<"Connected", "Connected">>, <<"Connected", "Closed">>,
     <<"Closed", "Closed">>}

\* C13: one call of start makes one connection attempt and only moves along
\* Disconnected -> Connecting -> Connected -> Closed.  A Close frame or a read
\* error is the last item read: the loop is over and start has returned.  Once
\* start has returned it stays returned: no frame is read, no task is spawned
\* for a new event, and Connecting and Connected are never entered again.
C13_SingleAttemptNoReconnect ==
    /\ [](\A e \in Events :
            ev[e] \in {"Close", "Err"} =>
                /\ loopPc = "returned"
                /\ nread = e
                /\ NoTrace(e))
    /\ [][/\ <<ConnState(loopPc), ConnState(loopPc')>> \in ConnMoves
          /\ loopPc' = "connecting" => loopPc = "start_copy"
          /\ loopPc = "returned" =>
                /\ UNCHANGED <<loopPc, startResult, nread, ev>>
                /\ \A e \in Events :
                      /\ rs[e] = "none" => rs'[e] = "none"
                      /\ pm[e] = "none" => pm'[e] = "none"]_vars

\* An event was dispatched, then a Close frame or a read error ended the
\* loop, and the event's dispatch went on to its end after start returned.
C13_Witness ==
    /\ MaxFrames >= 2
    /\ ev[1] \in {"private", "group"}
    /\ ev[2] \in {"Close", "Err"}
    /\ loopPc = "returned"
    /\ pm[1] = "done"

\* C14 as stated: start returns an error when the handshake fails and when a
\* read error ends the loop, and returns success only when the connection
\* ended without a transport error.
C14_StartErrOnTransportError ==
    /\ (loopPc = "returned" /\ nread = 0) => startResult = "Err"
    /\ \A e \in Events : ev[e] = "Err" => startResult = "Err"
    /\ startResult = "Ok" => (nread > 0 /\ ev[nread] \in {"Close", "None"})

\* C15 as stated: an adapter with an empty bot identity is never started.
C15_EmptyIdentityRejected ==
    bot_profile = "" => loopPc = "new"

\* The number a string of decimal digits stands for.
RECURSIVE DecimalValue(_)
DecimalValue(str) ==
    IF str = <<>> THEN 0
    ELSE 10 * DecimalValue(SubSeq(str, 1, Len(str) - 1))
         + (CHOOSE d \in 0..9 : Digits[d + 1] = str[Len(str)])

\* str is the decimal string of the integer n: digits only, no leading zero,
\* a minus sign in front below zero.
IsDecimalOf(str, n) ==
    LET digits == IF n < 0 THEN Tail(str) ELSE str
    IN  /\ Len(str) >= 1
        /\ n < 0 => str[1] = "-"
        /\ Len(digits) >= 1
        /\ \A i \in 1..Len(digits) : \E d \in 0..9 : digits[i] = Digits[d + 1]
        /\ Len(digits) > 1 => digits[1] # "0"
        /\ DecimalValue(digits) = (IF n < 0 THEN 0 - n ELSE n)

\* For each frame, the store keys that are the decimal string of the
\* message_id of its event.
DecimalKeys ==
    [e \in Events |-> {k \in Keys : IsDecimalOf(k, message_id(e))}]

\* Frames with different message_ids have different keys.
KeysDistinct ==
    \A e1, e2 \in Events :
        message_id(e1) # message_id(e2) => msg_id(e1) # msg_id(e2)

\* A MessageEvent was built from the e-th frame.
Decoded(e) == ev[e] \in {"private", "group"}

\* process_message is past its store_message_record for event e.
Appended(e) == pm[e] \in {"lock_handlers", "handlers", "handler", "lock_brain",
                           "brain", "done"}

\* C16: for a decoded event, store_message_record is called once, after the
\* dispatch task took the store lock and before anything else of the
\* dispatch, with one record whose message_id is the decimal string of the
\* event's message_id; before that call returns there is no record of the
\* event.  No frame that was not decoded has a record, and no record exists
\* under any other message_id.
C16_OneRecordPerEvent ==
    [](
    /\ \A e \in Events :
        /\ ~Decoded(e) => appendRes[e] = "none"
        /\ (Decoded(e) /\ ~Appended(e)) =>
                /\ appendRes[e] = "none"
                /\ \A k \in DecimalKeys[e] : records[k] = <<>>
        /\ (Decoded(e) /\ Appended(e)) =>
                /\ appendRes[e] \in {"Ok", "Err"}
                /\ \E k \in DecimalKeys[e] : records[k] = <<appendRes[e]>>
    /\ \A k \in DOMAIN records :
            records[k] # <<>> =>
                \E e \in Events :
                    Decoded(e) /\ Appended(e) /\ k \in DecimalKeys[e])

\* The record of one event was written, the store_message_record of another
\* failed, and both dispatches are over.
C16_Witness ==
    \E e1, e2 \in Events :
        /\ pm[e1] = "done" /\ records[msg_id(e1)] = <<"Ok">>
        /\ pm[e2] = "done" /\ records[msg_id(e2)] = <<"Err">>

\* C17: for a decoded event, store_message is called once, by the raw-store
\* task, with the decimal string of the event's message_id as key and the
\* JSON of the decoded RawMessageEvent as value; nothing is put for a frame
\* that was not decoded or under any other key, and events with different
\* message_ids are put under different keys.
C17_OneRawPutPerEvent ==
    [](
    /\ \A e \in Events :
        /\ (Decoded(e) /\ rs[e] = "done") =>
                \E k \in DecimalKeys[e] :
                    mem[k] = << <<"message_id", message_id(e),
                                  "message_type", ev[e]>> >>
        /\ rs[e] # "done" => \A k \in DecimalKeys[e] : mem[k] = <<>>
        /\ ~Decoded(e) => rs[e] = "none"
    /\ \A k \in DOMAIN mem :
            mem[k] # <<>> =>
                \E e \in Events :
                    Decoded(e) /\ rs[e] = "done" /\ k \in DecimalKeys[e]
    /\ KeysDistinct)

\* The raw puts of a private and of a group event are both done.
C17_Witness ==
    \E e1, e2 \in Events :
        /\ ev[e1] = "private" /\ rs[e1] = "done" /\ Len(mem[msg_id(e1)]) = 1
        /\ ev[e2] = "group" /\ rs[e2] = "done" /\ Len(mem[msg_id(e2)]) = 1

\* The pieces of a string between the occurrences of a separator character.
RECURSIVE Pieces(_, _)
Pieces(str, sep) ==
    IF \A i \in 1..Len(str) : str[i] # sep THEN <<str>>
    ELSE LET i == CHOOSE j \in 1..Len(str) :
                    str[j] = sep /\ \A l \in 1..(j - 1) : str[l] # sep
         IN  <<SubSeq(str, 1, i - 1)>> \o Pieces(SubSeq(str, i + 1, Len(str)), sep)

\* The strings a joined string was made of; none for the empty string.
Split(str, sep) == IF str = <<>> THEN <<>> ELSE Pieces(str, sep)

\* The targets of the At segments that have one, in segment order.
Targets(message_list) ==
    LET ats == SelectSeq(message_list, LAMBDA m : m[1] = "At" /\ m[2] # None)
    IN  [i \in 1..Len(ats) |-> ats[i][2][1]]

\* C18: the at_target_list of the record of a group event is None when no At
\* segment has a target, and otherwise Some of a string whose comma-separated
\* pieces are the decimal strings of the targets of the At segments that have
\* one, in segment order; that of a private event is Some(bot id) whatever
\* its segments are.
C18_AtTargetList ==
    unit # <<>> /\ unit.record # None =>
        LET raw == unit.raw
            at == unit.record[1].at_target_list
            targets == Targets(raw.message)
        IN  IF raw.message_type = "Group"
            THEN IF targets = <<>>
                 THEN at = None
                 ELSE /\ at # None
                      /\ Len(Split(at[1], ",")) = Len(targets)
                      /\ \A i \in 1..Len(targets) :
                            IsDecimalOf(Split(at[1], ",")[i], targets[i])
            ELSE at = Some(bot_profile)

\* The record of a group event with two targeted At segments was built.
C18_Witness ==
    /\ unit # <<>>
    /\ unit.raw.message_type = "Group"
    /\ unit.raw.message = <<At(Some(222)), At(Some(7))>>
    /\ unit.record # None
    /\ unit.record[1].at_target_list = Some(<<"2", "2", "2", ",", "7">>)

\* C19: a private event with message_id m, sender user_id u, nickname n and
\* segments s gives a record whose message_id and sender_id are the decimal
\* strings of m and u, whose sender_name is n, whose content is made of the
\* rendering of each segment of s, in order, with one space between
\* neighbours, and whose at_target_list is Some(bot id); the handlers called
\* for it are the registered ones, in order, each with an event of kind
\* Private.
C19_PrivateEndToEnd ==
    (unit # <<>> /\ unit.raw.message_type = "Private" /\ unit.record # None) =>
        LET raw == unit.raw
            r == unit.record[1]
        IN  /\ IsDecimalOf(r.message_id, raw.message_id)
            /\ IsDecimalOf(r.sender_id, raw.sender.user_id)
            /\ r.sender_name = raw.sender.nickname
            /\ Split(r.content, " ") =
                    [i \in 1..Len(raw.message) |-> Display(raw.message[i])]
            /\ r.at_target_list = Some(bot_profile)
            /\ Len(unit.calls) <= Len(event_handlers)
            /\ \A i \in 1..Len(unit.calls) :
                    unit.calls[i] = <<event_handlers[i], "Private">>
            /\ ~ENABLED RecordHandler => Len(unit.calls) = Len(event_handlers)

\* A private event with a negative message_id, a card and two segments went
\* through two handlers.
C19_Witness ==
    /\ unit # <<>>
    /\ unit.raw.message_type = "Private"
    /\ unit.raw.message_id < 0
    /\ unit.raw.sender.card # ""
    /\ Len(unit.raw.message) = 2
    /\ unit.record # None
    /\ Len(unit.calls) = 2

\* C20: a get_message(k) that comes right after a store_message(k, v) on the
\* same store returns Some(v), for every key and every string v, the empty
\* one included, with Redis configured or not, answering or not.
C20_RoundTrip ==
    (unit # <<>> /\ unit.last[1] = "get_message"
                 /\ unit.before[1] = "store_message"
                 /\ unit.before[2] = unit.last[2]) =>
        unit.last[3] = Some(unit.before[3])

\* With Redis configured and holding an older value for the key, the empty
\* string was stored and read back.
C20_Witness ==
    /\ unit # <<>>
    /\ unit.store.redis_url
    /\ unit.before \in {<<"store_message", "id1", "", ok>> : ok \in BOOLEAN}
    /\ unit.last \in {<<"get_message", "id1", Some(""), ok>> : ok \in BOOLEAN}

\* C21: whatever store_message calls were made, get_message(k) returns the
\* value of the latest store_message(k, _); calls on other keys in between do
\* not change it.
C21_LastWriteWins ==
    (unit # <<>> /\ unit.pc = "store" /\ unit.last[1] = "get_message"
                 /\ unit.writes[unit.last[2]] > 0) =>
        unit.last[3] = unit.latest[unit.last[2]]

\* A key was written more than once, then another key was written, and the
\* read of the first key gave its latest value.
C21_Witness ==
    /\ unit # <<>> /\ unit.pc = "store"
    /\ unit.writes["id1"] = 2
    /\ unit.before[1] = "store_message" /\ unit.before[2] = "id2"
    /\ unit.before[3] # unit.latest["id1"][1]
    /\ unit.last[1] = "get_message" /\ unit.last[2] = "id1"
    /\ unit.last[3] = unit.latest["id1"]

\* C26: with Redis configured, when Redis fails on the store_message, on the
\* get_message after it, or on both, neither call fails, the memory tier has
\* the value, and the get_message returns it, whatever Redis holds.
C26_RedisFailureNotPropagated ==
    (unit # <<>> /\ unit.pc = "store" /\ unit.store.redis_url
                 /\ unit.before[1] = "store_message"
                 /\ unit.last[1] = "get_message"
                 /\ unit.before[2] = unit.last[2]
                 /\ (~unit.before[4] \/ ~unit.last[4])) =>
        /\ unit.store.memory[unit.last[2]] = Some(unit.before[3])
        /\ unit.last[3] = Some(unit.before[3])

\* Redis failed on the store_message and still holds an older value, and
\* answered the get_message after it.
C26_Witness ==
    /\ unit # <<>> /\ unit.pc = "store" /\ unit.store.redis_url
    /\ unit.before = <<"store_message", "id1", "hello", FALSE>>
    /\ unit.store.redis["id1"] = Some("old")
    /\ unit.last = <<"get_message", "id1", Some("hello"), TRUE>>

\* C22: with neither a redis_url nor a database_url every call on the store
\* succeeds on the memory tier alone: get_message returns what the latest
\* store_message of the key stored, None when there was none;
\* store_message_record returns Ok(()) and load_messages_from_mysql returns
\* Ok(0); neither of the two connects or writes anywhere, and the memory tier
\* holds what the store_message calls put there and nothing else.
C22_MemoryOnly ==
    (unit # <<>> /\ ~unit.store.redis_url /\ ~unit.store.database_url) =>
        /\ unit.pc = "idle"
        /\ unit.dial = "none"
        /\ unit.store.mysql = <<>>
        /\ unit.store.redis = [k \in TierKeys |-> None]
        /\ unit.store.memory = unit.latest
        /\ unit.call[1] = "get_message" => unit.ret = unit.latest[unit.call[2]]
        /\ unit.call[1] = "store_message_record" => unit.ret = Ok(Unit)
        /\ unit.call[1] = "load_messages_from_mysql" => unit.ret = Ok(0)

\* Without urls, after a store_message, load_messages_from_mysql returned
\* Ok(0) and the memory tier has the stored value alone.
C22_Witness ==
    /\ unit # <<>> /\ ~unit.store.redis_url /\ ~unit.store.database_url
    /\ unit.call = <<"load_messages_from_mysql", MaxLimit>>
    /\ unit.ret = Ok(0)
    /\ unit.store.memory = [k \in TierKeys |->
                                IF k = "id1" THEN Some("hello") ELSE None]

\* C23: with a database_url, a store_message_record whose connection fails
\* makes at most mysql_reconnect_max_attempts reconnect attempts, each after
\* a sleep; when the last one fails the call returns Err, and from then on
\* the store never connects again: every later store_message_record returns
\* Err at once and the log stays as it is.
C23_BoundedReconnect ==
    /\ [](unit.store.database_url =>
            /\ unit.store.retries <= unit.store.mysql_reconnect_max_attempts
            /\ unit.pc \in {"idle", "sleep", "reconnect"}
            /\ unit.store.gave_up =>
                /\ unit.pc = "idle"
                /\ unit.call[1] = "store_message_record" => unit.ret = Err)
    /\ [][unit.store.database_url =>
            /\ unit'.store.retries = unit.store.retries + 1 =>
                    unit.pc = "reconnect" /\ unit.dial = "none"
            /\ (unit'.dial # "none" /\ unit'.call[1] = "store_message_record"
                                    /\ unit.pc # "idle") =>
                    unit'.store.retries = unit.store.retries + 1
            /\ (unit'.store.gave_up /\ ~unit.store.gave_up) =>
                    /\ unit'.dial = "failed" /\ unit'.ret = Err
                    /\ unit'.store.retries =
                            unit.store.mysql_reconnect_max_attempts
            /\ unit.store.gave_up =>
                    /\ unit'.store.gave_up
                    /\ unit'.dial = "none"
                    /\ unit'.store.mysql = unit.store.mysql]_vars

\* All the reconnect attempts allowed were made and failed, and a
\* store_message_record after that returned Err without connecting.
C23_Witness ==
    /\ unit # <<>> /\ unit.store.database_url /\ unit.store.gave_up
    /\ unit.store.mysql_reconnect_max_attempts = MaxAttempts
    /\ unit.store.retries = MaxAttempts
    /\ unit.call[1] = "store_message_record"
    /\ unit.ret = Err
    /\ unit.dial = "none"

\* C24: a load_messages_from_mysql(limit) that reaches a log of n records
\* returns Ok(min(limit, n)) and puts exactly that many records into the
\* memory tier, the ones at the recent end of the log, each under its message
\* id; every other key keeps what it had.
C24_HydrationCap ==
    [][(unit'.call[1] = "load_messages_from_mysql" /\ unit'.dial = "ok") =>
        LET log == unit.store.mysql
            n == Len(log)
            limit == unit'.call[2]
            count == Min(limit, n)
            recent == {log[i] : i \in (n - count + 1)..n}
        IN  /\ unit'.ret = Ok(count)
            /\ Cardinality(recent) = count
            /\ unit'.store.mysql = log
            /\ \A k \in TierKeys :
                    unit'.store.memory[k] =
                        IF \E r \in recent : r.message_id = k
                        THEN Some(RecordContent[k])
                        ELSE unit.store.memory[k]]_vars

\* Of a log of three records, a load with a smaller limit put the most
\* recent ones into the memory tier and left the oldest out.
C24_Witness ==
    /\ unit # <<>> /\ Len(unit.store.mysql) = 3
    /\ unit.call[1] = "load_messages_from_mysql" /\ unit.call[2] \in 1..2
    /\ unit.ret = Ok(unit.call[2])
    /\ unit.store.memory[unit.store.mysql[3].message_id] =
            Some(unit.store.mysql[3].content)
    /\ unit.store.memory[unit.store.mysql[1].message_id] = None

\* C25: load_messages_from_mysql is called exactly once, by BotAdapter::new
\* and so before start connects; whatever it returns, new goes on to return
\* the adapter, the same adapter as without the load; when it returns Err the
\* memory tier is empty, and start can connect and spawn the tasks of the
\* events it reads.
C25_HydrateOnceNotFatal ==
    /\ [](/\ unit.loads = (IF loopPc = "load_messages" THEN 0 ELSE 1)
          /\ loopPc # "load_messages" => unit.ret # <<>>
          /\ (loopPc = "new" /\ event_handlers = <<>>) =>
                new("10001") /\ ENABLED StartLock
          /\ unit.ret = Err =>
                /\ unit.store.memory = [k \in TierKeys |-> None]
                /\ loopPc = "return_self" => ENABLED NewReturn
                /\ loopPc = "connecting" => ENABLED Connect(TRUE)
                /\ (loopPc = "connected" /\ nread < MaxFrames) =>
                        \A f \in Frames : ENABLED ReadFrame(f)
                /\ loopPc = "store_handle" => ENABLED ProcessEventSpawn)
    /\ [][unit'.loads # unit.loads =>
            loopPc = "load_messages" /\ loopPc' = "return_self"]_vars

\* The load failed, the adapter was built, start connected, and the tasks of
\* the first event read were spawned.
C25_Witness ==
    /\ unit # <<>> /\ unit.loads = 1 /\ unit.ret = Err
    /\ unit.store.database_url
    /\ bot_profile = "10001"
    /\ loopPc = "connected"
    /\ nread = 1 /\ rs[1] = "lock_store" /\ pm[1] # "none"

\* C27: when store_message_record returns Err for an event, the error is
\* logged and process_message goes on as after Ok: its next step is the lock
\* for the handler list, the handlers are called one by one in registration
\* order, each once, and once the dispatch is over the whole chain has run
\* and, when a Brain Agent is configured, its task has been spawned.
C27_AppendFailureNotPropagated ==
    /\ [](\A e \in Events :
            appendRes[e] = "Err" =>
                /\ <<"Event", e>> \in errlog
                /\ Appended(e)
                /\ IsPrefix(hlog[e], Chain(event_handlers))
                /\ (pm[e] = "lock_handlers" /\ adapterLock = Free) =>
                        ENABLED HandlersLock(e)
                /\ pm[e] = "handlers" => ENABLED HandlersUnlock(e)
                /\ pm[e] = "handler" => ENABLED HandlerReturn(e)
                /\ ChainOver(e) => hlog[e] = Chain(event_handlers)
                /\ (pm[e] = "lock_brain" /\ adapterLock = Free) =>
                        ENABLED BrainLock(e)
                /\ pm[e] = "brain" => ENABLED BrainUnlockSpawn(e)
                /\ pm[e] = "done" => (brain_agent <=> bt[e] # "none"))
    /\ [][\A e \in Events :
            (appendRes[e] = "none" /\ appendRes'[e] = "Err") =>
                /\ pm'[e] = "lock_handlers"
                /\ UNCHANGED <<hlog, hs, bt, bres, event_handlers, brain_agent>>]_vars

\* The record of an event was not persisted; both handlers were called for
\* it and its Brain Agent call returned.
C27_Witness ==
    \E e \in Events :
        /\ appendRes[e] = "Err"
        /\ records[msg_id(e)] = <<"Err">>
        /\ Len(event_handlers) >= 2
        /\ hlog[e] = Chain(event_handlers)
        /\ pm[e] = "done"
        /\ bres[e] = "Ok"

\* C28: the frames of a connection are taken one at a time in arrival order:
\* a frame is read only when the loop is back at read.next(), i.e. when the
\* decoding of the frame before it is over, and the frames read are always
\* the first nread ones.  The raw-store task and the dispatch task of an event
\* are spawned together, while its frame is the last one read, so the tasks
\* of event i are spawned before frame i+1 is read and before the tasks of
\* any later event.
C28_FramesInOrder ==
    /\ [](\A e \in Events :
            /\ ev[e] # "none" <=> e <= nread
            /\ rs[e] = "none" <=> pm[e] = "none"
            /\ rs[e] # "none" => Decoded(e)
            /\ (Decoded(e) /\ e < nread) => rs[e] # "none"
            /\ (Decoded(e) /\ e = nread) =>
                    (rs[e] = "none" <=>
                        loopPc \in {"lock_store_handle", "store_handle"}))
    /\ [][/\ nread' # nread =>
                /\ nread' = nread + 1
                /\ loopPc = "connected"
                /\ \A e \in Events : e # nread' => ev'[e] = ev[e]
          /\ nread' = nread => ev' = ev
          /\ \A e \in Events :
                (rs[e] = "none" /\ rs'[e] # "none") =>
                    /\ e = nread /\ nread' = nread
                    /\ loopPc = "store_handle" /\ loopPc' = "connected"
                    /\ \A e2 \in Events : e2 > e => rs[e2] = "none"]_vars

\* The second frame is decoded and its tasks are not spawned yet; those of
\* the first event are, and its dispatch is already over.
C28_Witness ==
    /\ MaxFrames >= 2
    /\ Decoded(1) /\ Decoded(2)
    /\ nread = 2 /\ loopPc = "store_handle"
    /\ rs[2] = "none" /\ pm[2] = "none"
    /\ rs[1] # "none" /\ pm[1] = "done"

\* C30: a Ping, Pong or raw Frame message is not decoded: reading it changes
\* nothing but the count of frames read, no put, record, handler call or
\* Brain Agent call is ever made for it, and the connection stays Connected
\* with the loop at read.next().  A Close frame is not decoded either, and
\* moves the connection to Closed.
C30_ControlFramesNotDecoded ==
    /\ [](\A e \in Events :
            /\ ev[e] \in {"Ping", "Pong", "Frame", "Close"} => NoTrace(e)
            /\ (ev[e] \in {"Ping", "Pong", "Frame"} /\ nread = e) =>
                    /\ ConnState(loopPc) = "Connected"
                    /\ loopPc = "connected"
                    /\ startResult = "none"
            /\ ev[e] = "Close" =>
                    /\ ConnState(loopPc) = "Closed"
                    /\ nread = e)
    /\ [][\A e \in Events :
            (ev[e] = "none" /\ ev'[e] \in {"Ping", "Pong", "Frame", "Close"}) =>
                /\ UNCHANGED <<adapterVars, lockVars, rs, pm, hs, hi, hlog, bt,
                               bres, storeVars, errlog>>
                /\ ev'[e] # "Close" => UNCHANGED <<loopPc, startResult>>
                /\ ev'[e] = "Close" => ConnState(loopPc') = "Closed"]_vars

\* A Ping, Pong or raw Frame was read, the event of the frame after it was
\* dispatched to its end, and a Close frame then closed the connection.
C30_Witness ==
    /\ MaxFrames >= 2
    /\ ev[1] \in {"Ping", "Pong", "Frame"}
    /\ Decoded(2) /\ pm[2] = "done"
    /\ IF MaxFrames > 2 THEN ev[3] = "Close" /\ loopPc = "returned"
                        ELSE loopPc = "connected"

\* The string starts with the prefix.
StartsWith(str, prefix) ==
    /\ Len(prefix) <= Len(str)
    /\ \A i \in 1..Len(prefix) : str[i] = prefix[i]

\* The string without its first n characters.
Drop(str, n) == [i \in 1..(Len(str) - n) |-> str[i + n]]

\* The text of the string up to, not including, its first '/' or ':'.
UpToSlashOrColon(str) ==
    LET stops == {i \in 1..Len(str) : str[i] \in {"/", ":"}}
        end == IF stops = {} THEN Len(str)
               ELSE (CHOOSE i \in stops : \A j \in stops : i <= j) - 1
    IN  [i \in 1..end |-> str[i]]

\* C29: for a url that starts with ws:// or wss://, extract_host returns the
\* text after the scheme up to, not including, the first '/' or ':', so that
\* port and path are stripped; for every other url it returns None, and the
\* Host header of the request is then localhost, and the extracted host
\* otherwise.
C29_ExtractHost ==
    (unit # <<>> /\ unit.pc # "url") =>
        LET ws == StartsWith(unit.url, <<"w", "s", ":", "/", "/">>)
            wss == StartsWith(unit.url, <<"w", "s", "s", ":", "/", "/">>)
            expected == UpToSlashOrColon(Drop(unit.url, IF ws THEN 5 ELSE 6))
        IN  /\ (ws \/ wss) => unit.host = Some(expected)
            /\ ~(ws \/ wss) => unit.host = None
            /\ unit.pc = "request" =>
                    unit.header =
                        IF ws \/ wss THEN expected
                        ELSE <<"l", "o", "c", "a", "l", "h", "o", "s", "t">>

\* The request for wss://a.b:80/p has the Host header a.b.
C29_Witness ==
    /\ unit # <<>> /\ unit.pc = "request"
    /\ unit.url = <<"w", "s", "s", ":", "/", "/", "a", ".", "b",
                    ":", "8", "0", "/", "p">>
    /\ unit.host = Some(<<"a", ".", "b">>)
    /\ unit.header = <<"a", ".", "b">>

\* C31: the Brain Agent task of an event exists only for a decoded event of
\* an adapter that has a Brain Agent, is spawned when process_message of the
\* event is over, and goes once through lock, on_event and return without
\* ever going back, so on_event is called at most once per event and exactly
\* once when the task has finished; a frame that was not decoded and an
\* adapter without a Brain Agent have no task and no on_event result.
C31_BrainOncePerEvent ==
    /\ [](\A e \in Events :
            /\ ~Decoded(e) => (bt[e] = "none" /\ bres[e] = "none")
            /\ ~brain_agent => (bt[e] = "none" /\ bres[e] = "none")
            /\ bt[e] # "none" <=> (brain_agent /\ pm[e] = "done")
            /\ bres[e] # "none" <=> bt[e] = "done"
            /\ adapterLock = BrainTask(e) <=> bt[e] = "on_event")
    /\ [][\A e \in Events :
            /\ bt'[e] # bt[e] =>
                    <<bt[e], bt'[e]>> \in {<<"none", "lock_adapter">>,
                                          <<"lock_adapter", "on_event">>,
                                          <<"on_event", "done">>}
            /\ bres[e] # "none" => bres'[e] = bres[e]]_vars

\* With a Brain Agent, on_event returned for the first event, and the second
\* frame, which could not be decoded, has no Brain Agent task.
C31_Witness ==
    /\ MaxFrames >= 2
    /\ brain_agent
    /\ Decoded(1) /\ bt[1] = "done" /\ bres[1] = "Ok"
    /\ ev[2] \in {"invalid_json", "no_message_type", "bad_schema"}
    /\ bt[2] = "none"

\* C32: the bot profile and the presence of the Brain Agent never change, and
\* the handler list changes only by register_event_handler before start,
\* which appends one handler and keeps the others in their order; every step
\* of the read loop, of process_event, of process_message and of the
\* raw-store task leaves all three as they are.
C32_AdapterStateFrame ==
    [][/\ UNCHANGED <<bot_profile, brain_agent>>
       /\ event_handlers' # event_handlers =>
            /\ loopPc = "new" /\ loopPc' = "new"
            /\ Len(event_handlers') = Len(event_handlers) + 1
            /\ SubSeq(event_handlers', 1, Len(event_handlers)) = event_handlers
            /\ UNCHANGED <<lockVars, loopVars, taskVars, storeVars, errlog>>
       /\ <<loopVars, taskVars, storeVars>>' # <<loopVars, taskVars, storeVars>> =>
            UNCHANGED adapterVars]_vars

\* Two handlers were registered, in that order, and are still the list after
\* two events went through their raw put and their dispatch.
C32_Witness ==
    /\ MaxFrames >= 2
    /\ event_handlers = <<1, 2>>
    /\ bot_profile = "10001"
    /\ pm[1] = "done" /\ pm[2] = "done"
    /\ rs[1] = rs[2] /\ rs[1] \notin {"none", "lock_store", "store_message"}

\* C33: the sender_name of the record of an event is the sender's card when
\* the event is a group message and the card is not empty, and the sender's
\* nickname in every other case: a private event with or without a card, and
\* a group event with an empty card.
C33_SenderName ==
    (unit # <<>> /\ unit.record # None) =>
        LET raw == unit.raw
            name == unit.record[1].sender_name
            card_shown == raw.message_type = "Group" /\ raw.sender.card # ""
        IN  /\ card_shown => name = raw.sender.card
            /\ ~card_shown => name = raw.sender.nickname
            /\ name # ""

\* The record of a group event whose sender has a card was built and is
\* named by the card.
C33_Witness ==
    /\ unit # <<>>
    /\ unit.raw.message_type = "Group"
    /\ unit.raw.sender.card = "Ali"
    /\ unit.record # None
    /\ unit.record[1].sender_name = "Ali"

\* C34 as stated: the dispatch task does not hold the store lock while one of
\* its handlers is running, so that a lock().await of the handler on the
\* store it was passed can be granted.
C34_HandlerCanLockStore ==
    \A e \in Events :
        pm[e] = "handler" => storeLock # DispatchTask(e)

\* process_message of event e is between the start of its
\* store_message_record and the return of its last handler.
InChain(e) ==
    pm[e] \in {"store_message_record", "lock_handlers", "handlers", "handler"}

\* C36: while process_message of one event is between the start of its
\* store_message_record and the return of its last handler, it holds the
\* store lock, and no other event is inside its own store_message_record or
\* handler chain or inside its raw put; the tasks of other events that need
\* the store are at most waiting for the lock.
C36_ChainsDoNotOverlap ==
    [](\A e1 \in Events :
        InChain(e1) =>
            /\ storeLock = DispatchTask(e1)
            /\ rs[e1] # "store_message"
            /\ \A e2 \in Events \ {e1} :
                    /\ ~InChain(e2)
                    /\ pm[e2] \notin {"lock_brain", "brain"}
                    /\ rs[e2] # "store_message")

\* The second handler of the first event is running while both tasks of the
\* second event wait for the store lock.
C36_Witness ==
    /\ MaxFrames >= 2
    /\ pm[1] = "handler" /\ Len(hlog[1]) = 3
    /\ storeLock = DispatchTask(1)
    /\ rs[2] = "lock_store" /\ pm[2] = "lock_store"

\* The read loop has taken every frame there is: start has returned, or the
\* loop is back at read.next() after the last frame.
LoopOver ==
    \/ loopPc = "returned"
    \/ loopPc = "connected" /\ nread = MaxFrames

\* C35: with handlers, Brain Agent calls and store calls that return and
\* take no lock of the pipeline, and with every task scheduled whenever it
\* can go on, the two locks never leave a task waiting for ever: every
\* decoded event gets its tasks spawned, every spawned raw-store, dispatch and
\* Brain Agent task finishes, and the read loop takes every frame, whatever
\* the number of handlers, the kinds of frames and the order in which the
\* tasks take the adapter lock and the store lock.
C35_NoDeadlock ==
    /\ <>[]LoopOver
    /\ \A e \in Events :
        /\ Decoded(e) ~> (rs[e] = "done" /\ pm[e] = "done")
        /\ (brain_agent /\ Decoded(e)) ~> bt[e] = "done"
        /\ []<>(rs[e] \in {"none", "done"} /\ pm[e] \in {"none", "done"}
                                            /\ bt[e] \in {"none", "done"})

\* Every frame was a decoded event, and all tasks of all events, the Brain
\* Agent tasks included, have finished after going through two handlers.
C35_Witness ==
    /\ brain_agent
    /\ Len(event_handlers) >= 2
    /\ nread = MaxFrames
    /\ \A e \in Events :
        /\ Decoded(e)
        /\ rs[e] = "done" /\ pm[e] = "done" /\ bt[e] = "done"
        /\ hlog[e] = Chain(event_handlers)

\* C37 as stated: every decoded event eventually has its raw put and its
\* store_message_record executed and all its handlers called, also when start
\* returns right after the event's frame.
C37_EventuallyDelivered ==
    \A e \in Events :
        Decoded(e) ~> /\ mem[msg_id(e)] # <<>>
                      /\ appendRes[e] # "none"
                      /\ ChainOver(e)
                      /\ hlog[e] = Chain(event_handlers)

\* what a link has to refer to in graph g: both nodes are there, the
\* from-node has an output port and the to-node an input port of the link's
\* names, and the two have one data type
LinkRefersToPorts(g, l) ==
    /\ g.nodes[l.from_node] # None
    /\ g.nodes[l.to_node] # None
    /\ LET outs == g.nodes[l.from_node][1].output_ports
           ins == g.nodes[l.to_node][1].input_ports
       IN  \E i \in DOMAIN outs, j \in DOMAIN ins :
            /\ outs[i].name = l.from_port
            /\ ins[j].name = l.to_port
            /\ outs[i].data_type = ins[j].data_type

\* C38: after any sequence of add_node and add_link calls every stored link
\* refers to an existing from-node with an output port of its name and an
\* existing to-node with an input port of its name, the two ports of equal
\* data type; an add_link whose link does not returns a validation error,
\* and an add_link that returns an error leaves nodes and links as they
\* were, while one that returns Ok pushes exactly its link.
C38_LinksReferToPorts ==
    /\ [](\A i \in DOMAIN unit.graph.links :
            LinkRefersToPorts(unit.graph, unit.graph.links[i]))
    /\ [][unit'.call[1] = "add_link" =>
            LET link == unit'.call[2] IN
            /\ ~LinkRefersToPorts(unit.graph, link) =>
                    /\ unit'.result[1] = "Err"
                    /\ unit'.result[2] = "ValidationError"
            /\ unit'.result[1] = "Err" => unit'.graph = unit.graph
            /\ unit'.result[1] = "Ok" =>
                    /\ unit'.graph.nodes = unit.graph.nodes
                    /\ unit'.graph.links = Append(unit.graph.links, link)
       ]_vars

\* a graph with two nodes and a link has just refused a link whose two
\* ports exist but differ in data type
C38_Witness ==
    /\ unit.call[1] = "add_link"
    /\ unit.result = ValidationError("Type mismatch")
    /\ Len(unit.graph.links) >= 1
    /\ \A k \in NodeIds : unit.graph.nodes[k] # None
    /\ unit.call[2] \notin {unit.graph.links[i] : i \in DOMAIN unit.graph.links}

\* C39: add_node with an id that is present returns a validation error and
\* leaves nodes and links as they were; with a new id it returns Ok, stores
\* exactly that node under its id and touches nothing else; every stored
\* node sits under its own id, so no two stored nodes share an id.
C39_AddNodeKeepsIdsUnique ==
    /\ [](\A k \in NodeIds :
            unit.graph.nodes[k] # None => unit.graph.nodes[k][1].id = k)
    /\ [][unit'.call[1] = "add_node" =>
            LET node == unit'.call[2] IN
            IF unit.graph.nodes[node.id] # None
            THEN /\ unit'.result[1] = "Err"
                 /\ unit'.result[2] = "ValidationError"
                 /\ unit'.graph = unit.graph
            ELSE /\ unit'.result = Ok(Unit)
                 /\ unit'.graph.links = unit.graph.links
                 /\ unit'.graph.nodes[node.id] = Some(node)
                 /\ \A k \in NodeIds \ {node.id} :
                        unit'.graph.nodes[k] = unit.graph.nodes[k]
       ]_vars

\* a graph with a link has just refused a node whose id it holds, and the
\* node stored under that id is the other one
C39_Witness ==
    /\ unit.call[1] = "add_node"
    /\ unit.result[1] = "Err"
    /\ Len(unit.graph.links) >= 1
    /\ unit.graph.nodes[unit.call[2].id] # None
    /\ unit.graph.nodes[unit.call[2].id] # Some(unit.call[2])

====
